---------------------------- MODULE Spec2Model ----------------------------
(***************************************************************************)
(* A model of the telescope tracking loop of src/track/control.py:         *)
(* MovingAverageFilter, PIDController and Tracker.                         *)
(*                                                                         *)
(* Numbers.  The program computes in floating point; the model computes    *)
(* in integers.  Time is counted in ticks of the monotonic clock, rates    *)
(* and errors in integer units.  The inputs are drawn from sets for which  *)
(* every division the program performs is exact, so \div is the program's  *)
(* "/" on the values that occur.                                           *)
(*                                                                         *)
(* Python's None is the empty sequence <<>>; a present value v is <<v>>.   *)
(***************************************************************************)
EXTENDS Integers, Sequences, FiniteSets, TLC

None == << >>

Some(v) == << v >>

Abs(x) == IF x < 0 THEN -x ELSE x

RECURSIVE SeqSum(_)
SeqSum(s) == IF s = << >> THEN 0 ELSE Head(s) + SeqSum(Tail(s))

(***************************************************************************)
(* Bounds of the model.                                                    *)
(***************************************************************************)
\* the clock stops at MaxTime ticks
MaxTime == 7

\* calls made to the stand-alone controller of SpecPID
MaxCalls == 4

\* control cycles the Tracker runs, counted over all calls of run()
MaxIter == 3

\* calls of Tracker.run()
MaxRuns == 2

(***************************************************************************)
(* Input sets.                                                             *)
(***************************************************************************)
\* ticks that may pass between two readings of the clock
Periods == {1, 2, 3}

\* PIDController.__init__ max_update_period, in ticks
max_update_period == 2

(***************************************************************************)
(* MovingAverageFilter                                                     *)
(***************************************************************************)
\* MovingAverageFilter.__init__
MovingAverageFilter(max_depth) ==
    [delay_line |-> << >>, sample_periods |-> << >>, max_depth |-> max_depth]

\* MovingAverageFilter.reset
filter_reset(f) == [f EXCEPT !.delay_line = << >>, !.sample_periods = << >>]

\* np.cumsum(s)[i] for the 1-based index i
CumSum(s, i) == SeqSum(SubSeq(s, 1, i))

\* np.argmax(np.cumsum(periods) > max_depth): the number of leading samples
\* whose cumulative period does not exceed max_depth (0-based index of the
\* first sample that does); 0 when no sample does, as np.argmax of all-False
ArgMaxExceeds(periods, max_depth) ==
    LET hits == {i \in 1..Len(periods) : CumSum(periods, i) > max_depth}
    IN  IF hits = {} THEN 0
        ELSE (CHOOSE i \in hits : \A j \in hits : i <= j) - 1

\* a faulty trim: the first sample over the depth is kept
DiscardStartInclusive(periods, max_depth) == ArgMaxExceeds(periods, max_depth) + 1

\* advance(), line 104: discard_start_index
DiscardStart(periods, max_depth) == ArgMaxExceeds(periods, max_depth)

\* the state of the filter after MovingAverageFilter.advance(value, sample_period)
advance_state(f, value, sample_period) ==
    LET dl == << value >> \o f.delay_line
        sp == << sample_period >> \o f.sample_periods
    IN  IF SeqSum(sp) > f.max_depth
        THEN LET keep == DiscardStart(sp, f.max_depth)
             IN  [f EXCEPT !.delay_line = SubSeq(dl, 1, keep),
                           !.sample_periods = SubSeq(sp, 1, keep)]
        ELSE [f EXCEPT !.delay_line = dl, !.sample_periods = sp]

\* a faulty output: the sum of the delay line in place of its mean
filter_output_sum(f) == SeqSum(f.delay_line)

\* np.mean(self.delay_line) if len(self.delay_line) > 0 else 0.0
filter_output(f) ==
    IF Len(f.delay_line) > 0 THEN SeqSum(f.delay_line) \div Len(f.delay_line) ELSE 0

(***************************************************************************)
(* PIDController                                                           *)
(***************************************************************************)
\* a faulty reset: the previous error and the time of the last update are
\* left as they are
reset_keeps_error_prev(c) ==
    [c EXCEPT !.integrator = 0,
              !.derivative_filter = filter_reset(c.derivative_filter)]

\* a faulty reset: the integrator is left as it is
reset_keeps_integrator(c) ==
    [c EXCEPT !.error_prev = None,
              !.derivative_filter = filter_reset(c.derivative_filter),
              !.last_iteration_time = None]

\* PIDController.reset
reset(c) ==
    [c EXCEPT !.integrator = 0,
              !.error_prev = None,
              !.derivative_filter = filter_reset(c.derivative_filter),
              !.last_iteration_time = None]

\* PIDController.__init__
PIDController(gains, max_period) ==
    reset([gains |-> gains,
           derivative_filter |-> MovingAverageFilter(gains.derivative_filter_depth),
           max_update_period |-> max_period,
           integrator |-> 0,
           error_prev |-> None,
           last_iteration_time |-> None])

\* np.clip(x, lo, hi) = minimum(maximum(x, lo), hi)
Clip(x, lo, hi) ==
    LET m == IF x < lo THEN lo ELSE x
    IN  IF m > hi THEN hi ELSE m

\* a faulty clamp: the bounds are -rate and rate, without abs()
clamp_integrator_signed(c, rate) ==
    [c EXCEPT !.integrator = Clip(c.integrator, -rate, rate)]

\* PIDController.clamp_integrator
clamp_integrator(c, rate) ==
    [c EXCEPT !.integrator = Clip(c.integrator, -Abs(rate), Abs(rate))]

\* PIDController._compute_update_period: the period returned (None or a
\* number of ticks) when the clock reads t
update_period_of(c, t) ==
    IF c.last_iteration_time = None THEN None
    ELSE Some(t - c.last_iteration_time[1])

\* a faulty update: the integrator is updated whatever the period
IntegratorUpdatedAlways(c, period) == TRUE

\* a faulty update: the integrator is updated up to twice the period allowed
IntegratorUpdatedWithinTwice(c, period) == ~(period > 2 * c.max_update_period)

\* does update() add to the integrator for this measured period
IntegratorUpdated(c, period) == ~(period > c.max_update_period)

\* a faulty update: the integral is accumulated per call, not per second
update_per_call(c, error, t) ==
    LET up == update_period_of(c, t)
        integ == IF up = None THEN c.integrator
                 ELSE c.integrator + c.gains.integral * error
    IN  [ctrl |-> [c EXCEPT !.last_iteration_time = Some(t),
                            !.integrator = integ,
                            !.error_prev = Some(error)],
         out  |-> c.gains.proportional * error + integ]

\* a faulty update: the time of a call whose period is over
\* max_update_period is not recorded
update_late_keeps_time(c, error, t) ==
    LET up == update_period_of(c, t)
    IN  IF up = None
        THEN [ctrl |-> [c EXCEPT !.last_iteration_time = Some(t),
                                 !.error_prev = Some(error)],
              out  |-> c.gains.proportional * error + c.integrator]
        ELSE LET period == up[1]
                 late == period > c.max_update_period
                 integ == IF late THEN c.integrator
                          ELSE c.integrator + c.gains.integral * error * period
                 filt == advance_state(c.derivative_filter,
                                       (error - c.error_prev[1]) \div period, period)
             IN  [ctrl |-> [c EXCEPT !.last_iteration_time = IF late THEN @ ELSE Some(t),
                                     !.integrator = integ,
                                     !.derivative_filter = filt,
                                     !.error_prev = Some(error)],
                  out  |-> c.gains.proportional * error + integ
                             + c.gains.derivative * filter_output(filt)]

\* PIDController.update(error) when the clock reads t:
\* [ctrl |-> the controller afterwards, out |-> the value returned]
update(c, error, t) ==
    LET up == update_period_of(c, t)
        c1 == [c EXCEPT !.last_iteration_time = Some(t)]
    IN  IF up = None
        THEN [ctrl |-> [c1 EXCEPT !.error_prev = Some(error)],
              out  |-> c.gains.proportional * error + c.integrator]
        ELSE LET period == up[1]
                 prop_term == c.gains.proportional * error
                 integ == IF IntegratorUpdated(c, period)
                          THEN c.integrator + c.gains.integral * error * period
                          ELSE c.integrator
                 filt == IF c.error_prev # None
                         THEN advance_state(c.derivative_filter,
                                            (error - c.error_prev[1]) \div period,
                                            period)
                         ELSE c.derivative_filter
                 derivative_term == IF c.error_prev # None
                                    THEN c.gains.derivative * filter_output(filt)
                                    ELSE 0
             IN  [ctrl |-> [c1 EXCEPT !.integrator = integ,
                                      !.derivative_filter = filt,
                                      !.error_prev = Some(error)],
                  out  |-> prop_term + integ + derivative_term]


(***************************************************************************)
(* PointingError, ErrorSource and TelescopeMount: the collaborators of the *)
(* Tracker (track.errorsources and track.mounts of the PID variant), as    *)
(* the Tracker uses them.                                                  *)
(***************************************************************************)
\* list(mount.AxisName)
Axes == << "a0", "a1" >>

AxisSet == {Axes[i] : i \in 1..Len(Axes)}

\* PointingError(axis0, axis1, magnitude)
PointingError(e0, e1, mag) == [a0 |-> e0, a1 |-> e1, magnitude |-> mag]

\* a faulty handler of NoSignalException: a zero error in place of no error
ZeroError == PointingError(Some(0), Some(0), Some(0))

\* PointingError(None, None, None): no signal
NoSignalError == PointingError(None, None, None)

\* any(self.error): the error has a valid component
AnyValid(e) == e.a0 # None \/ e.a1 # None \/ e.magnitude # None

\* the errors ErrorSource.compute_error() may return; the magnitude is the
\* norm of the two components rounded to a whole unit
ErrorInputs ==
    { PointingError(Some(0), Some(12), Some(12)),
      PointingError(Some(12), Some(-12), Some(17)),
      PointingError(Some(-12), Some(0), Some(12)) }

\* TelescopeMount: the magnitude of its slew rate limit
MountRateLimit == 12

\* TelescopeMount: the largest change of rate it accepts in one command
MountStepLimit == 12

\* the kinds of mount: "rate" clips the command to its rate limit; "step"
\* also limits the change of rate from the rate last accepted; "stops" is a
\* "rate" mount that may refuse a command at a hard stop
\* TelescopeMount.slew(axis, rate): the possible outcomes, where last is the
\* rate the mount last accepted on that axis
mount_slew(kind, rate, last) ==
    LET byrate == Clip(rate, -MountRateLimit, MountRateLimit)
        bystep == Clip(byrate, last - MountStepLimit, last + MountStepLimit)
        ok(r)  == [raised |-> FALSE, rate |-> r, limit_exceeded |-> (r # rate)]
    IN  CASE kind = "rate"  -> {ok(byrate)}
          [] kind = "step"  -> {ok(bystep)}
          [] kind = "stops" -> {ok(byrate),
                                [raised |-> TRUE, rate |-> 0, limit_exceeded |-> FALSE]}


(***************************************************************************)
(* Tracker                                                                 *)
(***************************************************************************)
VARIABLES
    now,                  \* the clock: time.time() and time.perf_counter(), in ticks
    config,               \* what the Tracker is built and configured with
    controllers,          \* Tracker.controllers
    controller_outputs,   \* Tracker.controller_outputs
    error,                \* Tracker.error
    errstate,             \* Tracker.error_source.state
    slew_rate,            \* Tracker.slew_rate
    num_iterations,       \* Tracker.num_iterations
    callback,             \* Tracker.callback is not None
    stop,                 \* Tracker.stop
    telem_chans,          \* Tracker._telem_chans
    pc,                   \* where the control thread is in run()
    low_error_iterations, \* run(): low_error_iterations
    start_time,           \* run(): start_time
    axis_i,               \* run(): position of the "for axis in self.axes" loops
    result,               \* what the last run() returned, or the exception that ended it
    runs,                 \* calls of run() so far
    cyc,                  \* history: the cycle in progress (events, state at its head)
    tails,                \* history: lengths of the runs of good cycles ending now
    stop_req,             \* history: where the control thread was when stop was set
    saturated,            \* history: the axes whose integrator a cycle of this run clamped
    pid,                  \* SpecPID: a stand-alone PIDController
    pid_call,             \* SpecPID: the last call made to it
    pid_calls,            \* SpecPID: the number of calls made
    hyb,                  \* SpecHybrid: a HybridErrorSource
    hyb_call,             \* SpecHybrid: the last call of its compute_error()
    hyb_calls,            \* SpecHybrid: the number of calls made
    telem_source,         \* SpecTelem: the class of the telemetry source
    telem_mutex,          \* SpecTelem: who holds _telem_mutex
    heap,                 \* SpecTelem: the dict objects, by identity
    chans_ref,            \* SpecTelem: the dict self._telem_chans refers to
    wr,                   \* SpecTelem: the thread in _set_telem_channels
    rd,                   \* SpecTelem: the thread in get_telem_channels
    returned,             \* SpecTelem: history of the dicts get_telem_channels returned
    maf,                  \* SpecFilter: a stand-alone MovingAverageFilter
    maf_call,             \* SpecFilter: the last call of advance()
    maf_calls,            \* SpecFilter: the number of calls made
    fn_call,              \* the last call of a function checked on its own
    cam,                  \* SpecCam: a WebCam and the frames of its driver
    ctgt,                 \* SpecTarget: a CameraTarget
    pad,                  \* SpecPad: a Gamepad and its threads
    logger                \* SpecLogger: a TelemLogger and its worker thread

tracker_vars ==
    << config, controllers, controller_outputs, error, errstate, slew_rate,
       num_iterations, callback, stop, telem_chans, pc, low_error_iterations,
       start_time, axis_i, result, runs, cyc, tails, stop_req, saturated >>

pid_vars == << pid, pid_call, pid_calls >>

hyb_vars == << hyb, hyb_call, hyb_calls >>

telem_vars == << telem_source, telem_mutex, heap, chans_ref, wr, rd, returned >>

maf_vars == << maf, maf_call, maf_calls >>

ext_vars == << fn_call, cam, ctgt, pad, logger >>

\* the variables of the Tracker, the PIDController, the HybridErrorSource,
\* the telemetry dict and the MovingAverageFilter
base_vars == << now, tracker_vars, pid_vars, hyb_vars, telem_vars, maf_vars >>

vars == << base_vars, ext_vars >>

\* Tracker.converge_max_error_mag (50 arc seconds), in error units
converge_max_error_mag == 12

\* Tracker.converge_min_iterations (50 in the program)
converge_min_iterations == 2

\* a configuration of a Tracker and of what surrounds it: the constructor's
\* arguments (gains, mount), the attributes a caller sets before run(), and
\* the errors and clock periods the error source and the clock may produce
Config(g, m, swc, sot, ces, errs, periods) ==
    [gains |-> g, mount |-> m, stop_when_converged |-> swc, stop_on_timer |-> sot,
     max_run_time |-> 3, converge_error_state |-> ces, errors |-> errs,
     periods |-> periods]

GainsPI == [proportional |-> 2, integral |-> 2, derivative |-> 0, derivative_filter_depth |-> 2]

GainsPID == [proportional |-> 1, integral |-> 1, derivative |-> 1, derivative_filter_depth |-> 2]

\* an error of low and one of high magnitude
LowError == PointingError(Some(0), Some(12), Some(12))

HighError == PointingError(Some(12), Some(-12), Some(17))

\* the configurations of Spec
Configs ==
    { Config(GainsPID, "step", FALSE, TRUE, None, ErrorInputs, {1, 3}),
      Config(GainsPI, "stops", TRUE, FALSE, Some("optical"), {LowError, HighError}, {2}) }

\* the configuration of SpecSat: a mount that clips to its rate limit and
\* gains P > 0, I >= 0, D = 0
ConfigsSat ==
    { Config(GainsPI, "rate", FALSE, TRUE, None, ErrorInputs, Periods) }

\* the configurations of SpecConv
ConfigsConv ==
    { Config(GainsPI, "rate", TRUE, sot, ces, {LowError, HighError}, {2}) :
        sot \in BOOLEAN, ces \in {None, Some("optical")} }

\* the configurations of SpecExit: every setting of the two exit switches
ConfigsExit ==
    { Config(GainsPI, "rate", swc, sot, None, {LowError, HighError}, {2}) :
        swc \in BOOLEAN, sot \in BOOLEAN }

\* the configurations of SpecStop
ConfigsStop ==
    { Config(GainsPI, "stops", TRUE, TRUE, None, {LowError}, {2}) }

\* Tracker._set_telem_channels: the dict it builds; error[axis] is None
\* for a channel error_<axis> that is not set
TelemChannels(n, rates, err, ctrls, outs) ==
    [num_iterations |-> n,
     rate           |-> rates,
     error          |-> [a \in AxisSet |-> err[a]],
     controller_int |-> [a \in AxisSet |-> ctrls[a].integrator],
     controller_out |-> outs]

\* the record of the cycle in progress, as taken at the head of the loop
CycleStart ==
    [events |-> << >>,
     head   |-> [stop |-> stop,
                 controllers |-> controllers,
                 controller_outputs |-> controller_outputs,
                 slew_rate |-> slew_rate,
                 low_error_iterations |-> low_error_iterations,
                 num_iterations |-> num_iterations],
     updated |-> [a \in AxisSet |-> None],
     limit   |-> [a \in AxisSet |-> None]]

Event(op, axis) == [op |-> op, axis |-> axis]

Log(c, op, axis) == [c EXCEPT !.events = Append(@, Event(op, axis))]

\* Tracker.__init__, with one of the configurations cfgs
TrackerInit(cfgs) ==
    /\ config \in cfgs
    /\ controllers = [a \in AxisSet |-> PIDController(config.gains, max_update_period)]
    /\ controller_outputs = [a \in AxisSet |-> 0]
    /\ error = NoSignalError
    /\ errstate = "blind"
    /\ slew_rate = [a \in AxisSet |-> 0]
    /\ num_iterations = 0
    /\ callback = FALSE
    /\ stop = FALSE
    /\ telem_chans = TelemChannels(0, slew_rate, error, controllers, controller_outputs)
    /\ pc = "idle"
    /\ low_error_iterations = 0
    /\ start_time = 0
    /\ axis_i = 0
    /\ result = "none"
    /\ runs = 0
    /\ cyc = CycleStart
    /\ tails = [all |-> 0, processed |-> 0]
    /\ stop_req = None
    /\ saturated = {}


\* what the actions of the control thread leave alone unless they say so
Frame(changed) ==
    /\ "now" \in changed \/ UNCHANGED now
    /\ UNCHANGED << config, pid_vars, hyb_vars, telem_vars, maf_vars, ext_vars >>
    /\ "controllers" \in changed \/ UNCHANGED controllers
    /\ "controller_outputs" \in changed \/ UNCHANGED controller_outputs
    /\ "error" \in changed \/ UNCHANGED << error, errstate >>
    /\ "slew_rate" \in changed \/ UNCHANGED slew_rate
    /\ "num_iterations" \in changed \/ UNCHANGED num_iterations
    /\ "callback" \in changed \/ UNCHANGED callback
    /\ "stop" \in changed \/ UNCHANGED stop
    /\ "telem_chans" \in changed \/ UNCHANGED telem_chans
    /\ "low_error_iterations" \in changed \/ UNCHANGED low_error_iterations
    /\ "start_time" \in changed \/ UNCHANGED start_time
    /\ "axis_i" \in changed \/ UNCHANGED axis_i
    /\ "result" \in changed \/ UNCHANGED result
    /\ "runs" \in changed \/ UNCHANGED runs
    /\ "cyc" \in changed \/ UNCHANGED cyc
    /\ "tails" \in changed \/ UNCHANGED tails
    /\ "stop_req" \in changed \/ UNCHANGED stop_req
    /\ "saturated" \in changed \/ UNCHANGED saturated

\* a thread calls Tracker.run()
RunCall ==
    /\ pc = "idle"
    /\ runs < MaxRuns
    /\ pc' = "called"
    /\ runs' = runs + 1
    /\ result' = "none"
    /\ stop_req' = None
    /\ cyc' = CycleStart
    /\ Frame({"result", "runs", "stop_req", "cyc"})

\* run(), lines 424-429: clear stop, zero the counter, take the start time,
\* reset the controllers
RunInit ==
    /\ pc = "called"
    /\ stop' = FALSE
    /\ low_error_iterations' = 0
    /\ start_time' = now
    /\ controllers' = [a \in AxisSet |-> reset(controllers[a])]
    /\ pc' = "top"
    /\ tails' = [all |-> 0, processed |-> 0]
    /\ saturated' = {}
    /\ Frame({"stop", "low_error_iterations", "start_time", "controllers",
              "tails", "saturated"})

\* a faulty loop head: the timer is looked at before convergence
ExitReasonTimerFirst ==
    IF stop THEN "stop flag set"
    ELSE IF config.stop_on_timer
            /\ now - start_time > config.max_run_time THEN "timer expired"
    ELSE IF config.stop_when_converged
            /\ low_error_iterations >= converge_min_iterations THEN "converged"
    ELSE "none"

\* a faulty loop head: convergence is looked at before the stop flag
ExitReasonConvergedFirst ==
    IF config.stop_when_converged
       /\ low_error_iterations >= converge_min_iterations THEN "converged"
    ELSE IF stop THEN "stop flag set"
    ELSE IF config.stop_on_timer
            /\ now - start_time > config.max_run_time THEN "timer expired"
    ELSE "none"

\* a faulty loop head: convergence does not end the loop
ExitReasonNeverConverged ==
    IF stop THEN "stop flag set"
    ELSE IF config.stop_on_timer
            /\ now - start_time > config.max_run_time THEN "timer expired"
    ELSE "none"

\* run(), lines 433-440: the reason to return at the head of the loop, "none"
\* to go on with a cycle
ExitReason ==
    IF stop THEN "stop flag set"
    ELSE IF config.stop_when_converged
            /\ low_error_iterations >= converge_min_iterations THEN "converged"
    ELSE IF config.stop_on_timer
            /\ now - start_time > config.max_run_time THEN "timer expired"
    ELSE "none"

\* the head of the loop
LoopHead ==
    /\ pc = "top"
    /\ IF ExitReason # "none"
       THEN /\ pc' = "idle"
            /\ result' = ExitReason
            /\ Frame({"result"})
       ELSE /\ num_iterations < MaxIter
            /\ pc' = "compute"
            /\ cyc' = CycleStart
            /\ stop_req' = IF stop_req = None THEN None
                           ELSE Some([stop_req[1] EXCEPT !.missed = TRUE])
            /\ Frame({"cyc", "stop_req"})

\* run(), lines 442-446: error_source.compute_error(), which may block while
\* the clock advances, returns an error or raises NoSignalException
ComputeError ==
    /\ pc = "compute"
    /\ \E dt \in config.periods, e \in config.errors \cup {NoSignalError}, s \in {"blind", "optical"} :
          /\ now + dt <= MaxTime
          /\ now' = now + dt
          /\ error' = e
          /\ errstate' = IF config.converge_error_state = None THEN errstate ELSE s
    /\ cyc' = Log(cyc, IF error' = NoSignalError THEN "no_signal" ELSE "compute_error", "-")
    /\ pc' = "callback"
    /\ Frame({"now", "error", "cyc"})

\* a faulty loop: what the callback returns is ignored
AfterCallbackIgnoresResult(skip) ==
    IF ~AnyValid(error) THEN "finish" ELSE "converge"

\* run(), lines 448-455: where the cycle goes on after the callback, if one
\* is registered, returned skip: to _finish_control_cycle and the next
\* cycle, or to the rest of this cycle
AfterCallback(skip) ==
    IF skip THEN "finish"
    ELSE IF ~AnyValid(error) THEN "finish"
    ELSE "converge"

\* run(), lines 448-455: the callback, when one is registered, returns a
\* truth value and may set stop; then the check for an error without signal
InvokeCallback ==
    /\ pc = "callback"
    /\ \E skip \in BOOLEAN, sets_stop \in BOOLEAN :
          /\ ~callback => (~skip /\ ~sets_stop)
          /\ sets_stop => ~skip
          /\ stop' = (stop \/ sets_stop)
          /\ stop_req' = IF sets_stop /\ ~stop
                         THEN Some([pc |-> pc, n |-> num_iterations, missed |-> FALSE])
                         ELSE stop_req
          /\ LET c1 == IF callback
                       THEN Log(cyc, "callback", IF skip THEN "true" ELSE "false")
                       ELSE cyc
             IN  /\ pc' = AfterCallback(skip)
                 /\ cyc' = IF pc' = "finish" THEN Log(c1, "skip", "-") ELSE c1
    /\ Frame({"stop", "stop_req", "cyc"})

\* a faulty accounting: a large error leaves the count as it is
ConvergeCountNoReset ==
    IF error.magnitude[1] > converge_max_error_mag THEN low_error_iterations
    ELSE IF config.converge_error_state = None THEN low_error_iterations + 1
    ELSE IF errstate = config.converge_error_state[1] THEN low_error_iterations + 1
    ELSE 0

\* a faulty accounting: a low error in another state of the error source
\* leaves the count as it is
ConvergeCountKeepsInOtherState ==
    IF error.magnitude[1] > converge_max_error_mag THEN 0
    ELSE IF config.converge_error_state = None THEN low_error_iterations + 1
    ELSE IF errstate = config.converge_error_state[1] THEN low_error_iterations + 1
    ELSE low_error_iterations

\* run(), lines 457-465: the value of low_error_iterations after the cycle's
\* convergence accounting
ConvergeCount ==
    IF error.magnitude[1] > converge_max_error_mag THEN 0
    ELSE IF config.converge_error_state = None THEN low_error_iterations + 1
    ELSE IF errstate = config.converge_error_state[1] THEN low_error_iterations + 1
    ELSE 0

Converge ==
    /\ pc = "converge"
    /\ low_error_iterations' = ConvergeCount
    /\ cyc' = Log(cyc, "converge", "-")
    /\ pc' = "update"
    /\ axis_i' = 1
    /\ Frame({"low_error_iterations", "cyc", "axis_i"})

\* a faulty loop: the mount is commanded after the first controller update
UpdatesDoneEarly(i) == TRUE

\* run(), line 468: "for axis in self.axes" is exhausted after the pass for
\* the i-th axis
UpdatesDone(i) == ~(i < Len(Axes))

\* run(), lines 468-469: one pass of "for axis in self.axes" over update()
UpdateController ==
    /\ pc = "update"
    /\ LET a == Axes[axis_i]
           u == update(controllers[a], error[a][1], now)
       IN  /\ controllers' = [controllers EXCEPT ![a] = u.ctrl]
           /\ controller_outputs' = [controller_outputs EXCEPT ![a] = u.out]
           /\ cyc' = [Log(cyc, "update", a) EXCEPT !.updated[a] = Some(u.ctrl.integrator)]
    /\ IF ~UpdatesDone(axis_i)
       THEN axis_i' = axis_i + 1 /\ pc' = pc
       ELSE axis_i' = 1 /\ pc' = "slew"
    /\ Frame({"controllers", "controller_outputs", "cyc", "axis_i"})

\* a faulty loop: the integrator is clamped whether or not a limit was exceeded
AfterSlewAlwaysClamps(c, o) == clamp_integrator(c, o.rate)

\* a faulty loop: the integrator is never clamped
AfterSlewNeverClamps(c, o) == c

\* run(), lines 472-478, when mount.slew() returns o: the controller of the axis
AfterSlew(c, o) ==
    IF o.limit_exceeded THEN clamp_integrator(c, o.rate) ELSE c

\* run(), lines 472-478: one pass of "for axis in self.axes" over mount.slew();
\* an exception of the mount is not caught and ends run()
Slew ==
    /\ pc = "slew"
    /\ LET a == Axes[axis_i]
       IN  \E o \in mount_slew(config.mount, controller_outputs[a], slew_rate[a]) :
              IF o.raised
              THEN /\ pc' = "idle"
                   /\ result' = "AxisLimitException"
                   /\ axis_i' = 0
                   /\ cyc' = Log(cyc, "raise", a)
                   /\ UNCHANGED << slew_rate, controllers, saturated >>
              ELSE /\ slew_rate' = [slew_rate EXCEPT ![a] = o.rate]
                   /\ controllers' = [controllers EXCEPT ![a] = AfterSlew(@, o)]
                   /\ cyc' = [Log(cyc, "slew", a) EXCEPT !.limit[a] = Some(o.limit_exceeded)]
                   /\ saturated' = IF o.limit_exceeded THEN saturated \cup {a} ELSE saturated
                   /\ result' = result
                   /\ IF axis_i < Len(Axes)
                      THEN axis_i' = axis_i + 1 /\ pc' = pc
                      ELSE axis_i' = 0 /\ pc' = "finish"
    /\ Frame({"slew_rate", "controllers", "cyc", "saturated", "result", "axis_i"})

\* was the cycle in progress one the claim of convergence counts as good:
\* a valid error of low magnitude, in the required state of the error source
GoodCycle ==
    /\ AnyValid(error)
    /\ error.magnitude[1] <= converge_max_error_mag
    /\ config.converge_error_state # None => errstate = config.converge_error_state[1]

\* did the cycle in progress skip the controllers and the mount
SkippedCycle == \E i \in 1..Len(cyc.events) : cyc.events[i].op = "skip"

\* Tracker._finish_control_cycle, lines 483-486
FinishCycle ==
    /\ pc = "finish"
    /\ telem_chans' = TelemChannels(num_iterations, slew_rate, error, controllers,
                                    controller_outputs)
    /\ num_iterations' = num_iterations + 1
    /\ cyc' = Log(Log(cyc, "telem", "-"), "count", "-")
    /\ tails' = [all |-> IF GoodCycle THEN tails.all + 1 ELSE 0,
                 processed |-> IF SkippedCycle THEN tails.processed
                               ELSE IF GoodCycle THEN tails.processed + 1 ELSE 0]
    /\ pc' = "top"
    /\ Frame({"telem_chans", "num_iterations", "cyc", "tails"})

\* another thread sets Tracker.stop = True
SetStop ==
    /\ ~stop
    /\ stop' = TRUE
    /\ stop_req' = IF pc = "idle" THEN None
                   ELSE Some([pc |-> pc, n |-> num_iterations, missed |-> FALSE])
    /\ UNCHANGED pc
    /\ Frame({"stop", "stop_req"})

\* Tracker.register_callback(callback), callback a function or None.  The
\* control thread reads Tracker.callback once a cycle, so a registration made
\* during a cycle is one made at the head of the loop before or after it
register_callback(cb) ==
    /\ pc \in {"idle", "top"}
    /\ callback # cb
    /\ callback' = cb
    /\ UNCHANGED pc
    /\ Frame({"callback"})

RegisterCallback == \E cb \in BOOLEAN : register_callback(cb)

(***************************************************************************)
(* A PIDController on its own, called in any order: update(error) after    *)
(* the clock has advanced, clamp_integrator(rate), reset().                *)
(***************************************************************************)
\* the record of a call: the controller before it, its arguments, the period
\* update() measured, the value it returned, whether no update() had been
\* made since construction or the last reset(), and the history of the
\* calls of update() made since then: of the last one, the time of the call
\* and whether its period was over max_update_period, and the same of the
\* one before it
Call(op, before, arg, period, ret, first, last_update) ==
    [op |-> op, before |-> before, arg |-> arg, period |-> period, ret |-> ret,
     first |-> first, last_update |-> last_update]

PidInit ==
    /\ pid = PIDController(config.gains, max_update_period)
    /\ pid_call = Call("init", pid, 0, None, 0, TRUE, None)
    /\ pid_calls = 0

\* update(error) after 1, 2 or 3 ticks; the errors are multiples of 12 so
\* that (error - error_prev) / update_period is a whole number
PidUpdate ==
    /\ pid_calls < MaxCalls
    /\ \E dt \in Periods, e \in {-12, 0, 12} :
          /\ now + dt <= MaxTime
          /\ now' = now + dt
          /\ LET u == update(pid, e, now')
             IN  /\ pid' = u.ctrl
                 /\ pid_call' = Call("update", pid, e, update_period_of(pid, now'), u.out,
                                     pid_call.op \in {"init", "reset"}
                                        \/ (pid_call.op = "clamp" /\ pid_call.first),
                                     Some([time |-> now',
                                           late |-> pid_call.last_update # None
                                                    /\ dt > pid.max_update_period,
                                           prev |-> IF pid_call.last_update = None
                                                    THEN None
                                                    ELSE Some([time |-> pid_call.last_update[1].time,
                                                               late |-> pid_call.last_update[1].late])]))
    /\ pid_calls' = pid_calls + 1
    /\ UNCHANGED << tracker_vars, hyb_vars, telem_vars, maf_vars, ext_vars >>

\* clamp_integrator(rate) with a rate of either sign, zero, or the
\* magnitude of the output of the last update
PidClamp ==
    /\ pid_calls < MaxCalls
    /\ \E rate \in {-12, 0, 6} \cup (IF pid_call.op = "update" THEN {Abs(pid_call.ret)} ELSE {}) :
          /\ pid' = clamp_integrator(pid, rate)
          /\ pid_call' = Call("clamp", pid, rate, None, 0,
                              pid_call.op \in {"init", "reset"}
                                 \/ (pid_call.op = "clamp" /\ pid_call.first),
                              pid_call.last_update)
    /\ pid_calls' = pid_calls + 1
    /\ UNCHANGED << now, tracker_vars, hyb_vars, telem_vars, maf_vars, ext_vars >>

PidReset ==
    /\ pid_calls < MaxCalls
    /\ pid_call.op # "reset"
    /\ pid' = reset(pid)
    /\ pid_call' = Call("reset", pid, 0, None, 0, TRUE, None)
    /\ pid_calls' = pid_calls + 1
    /\ UNCHANGED << now, tracker_vars, hyb_vars, telem_vars, maf_vars, ext_vars >>

(***************************************************************************)
(* HybridErrorSource (src/track/errorsources.py) with its optical source,  *)
(* called again and again.  The blind source returns an error at every     *)
(* call; the optical source finds a target or not; the angle between the   *)
(* two solutions is an input.                                              *)
(***************************************************************************)
\* HybridErrorSource.__init__ max_divergence, in units of angle
max_divergence == 2

\* HybridErrorSource.__init__ max_optical_no_signal_frames
max_optical_no_signal_frames == 2

\* OpticalErrorSource.__init__: the counters of consecutive frames
OpticalErrorSource == [consec_detect_frames |-> 0, consec_no_detect_frames |-> 0]

\* a faulty optical source: a failed detection leaves the count of frames
\* with a detection as it was
optical_compute_error_keeps_detect(o, found) ==
    IF found = None
    THEN [optical |-> [o EXCEPT !.consec_no_detect_frames = @ + 1],
          raised  |-> TRUE]
    ELSE [optical |-> [o EXCEPT !.consec_detect_frames = @ + 1,
                                !.consec_no_detect_frames = 0],
          raised  |-> FALSE]

\* OpticalErrorSource.compute_error() once the retries are used up:
\* found is None when no keypoint was detected, else the error of the first
\* keypoint; [optical |-> the source afterwards, raised |-> NoSignalException]
optical_compute_error(o, found) ==
    IF found = None
    THEN [optical |-> [o EXCEPT !.consec_detect_frames = 0,
                                !.consec_no_detect_frames = @ + 1],
          raised  |-> TRUE]
    ELSE [optical |-> [o EXCEPT !.consec_detect_frames = @ + 1,
                                !.consec_no_detect_frames = 0],
          raised  |-> FALSE]

\* HybridErrorSource.__init__
HybridErrorSource == [state |-> "blind", optical |-> OpticalErrorSource]

\* what compute_error() gives back: an error, tagged with the source that
\* computed it, or NoSignalException
ErrorFrom(source, value) == [kind |-> "error", source |-> source, value |-> value]

RaiseNoSignal == [kind |-> "NoSignal", source |-> "none", value |-> 0]

\* a faulty test: the target is lost only after more than
\* max_optical_no_signal_frames frames
OpticalLostStrict(o) == o.consec_no_detect_frames > max_optical_no_signal_frames

\* a faulty test: the target is never given up
OpticalLostNever(o) == FALSE

\* compute_error(), line 440
OpticalLost(o) == o.consec_no_detect_frames >= max_optical_no_signal_frames

\* a faulty handler: the blind error is returned whenever the optical
\* source has no signal
OnNoSignalReturnsBlind(h, blind_error) ==
    [hybrid |-> [h EXCEPT !.state = "blind"], ret |-> ErrorFrom("blind", blind_error)]

\* compute_error(), lines 436-444: the optical source raised
\* NoSignalException; h is the source with the optical counters updated
OnNoSignal(h, blind_error) ==
    IF h.state = "blind"
    THEN [hybrid |-> h, ret |-> ErrorFrom("blind", blind_error)]
    ELSE IF OpticalLost(h.optical)
         THEN [hybrid |-> [h EXCEPT !.state = "blind"],
               ret    |-> ErrorFrom("blind", blind_error)]
         ELSE [hybrid |-> h, ret |-> RaiseNoSignal]

\* a faulty transition: a divergence equal to max_divergence also switches
StateAfterInclusive(state, divergence_angle) ==
    IF state = "blind" /\ divergence_angle <= max_divergence THEN "optical"
    ELSE IF state = "optical" /\ divergence_angle >= max_divergence THEN "blind"
    ELSE state

\* a faulty transition: from blind, a divergence equal to max_divergence
\* is enough to switch
StateAfterBlindInclusive(state, divergence_angle) ==
    IF state = "blind" /\ divergence_angle <= max_divergence THEN "optical"
    ELSE IF state = "optical" /\ divergence_angle > max_divergence THEN "blind"
    ELSE state

\* compute_error(), lines 461-466
StateAfter(state, divergence_angle) ==
    IF state = "blind" /\ divergence_angle < max_divergence THEN "optical"
    ELSE IF state = "optical" /\ divergence_angle > max_divergence THEN "blind"
    ELSE state

\* compute_error(), lines 446-468: the optical source returned optical_error
OnSignal(h, blind_error, optical_error, divergence_angle) ==
    LET st == StateAfter(h.state, divergence_angle)
    IN  [hybrid |-> [h EXCEPT !.state = st],
         ret    |-> IF st = "blind" THEN ErrorFrom("blind", blind_error)
                    ELSE ErrorFrom("optical", optical_error)]

\* HybridErrorSource.compute_error()
hybrid_compute_error(h, blind_error, found, divergence_angle) ==
    LET o  == optical_compute_error(h.optical, found)
        h1 == [h EXCEPT !.optical = o.optical]
    IN  IF o.raised THEN OnNoSignal(h1, blind_error)
        ELSE OnSignal(h1, blind_error, found[1], divergence_angle)

\* the record of a call of compute_error(): the source before it, its
\* inputs, what it gave back, and the number of calls in a row, this one
\* the last, in which the optical source had no signal, counted from a call
\* made in state optical; run is the calls of the optical source in a
\* row, this one the last, that had the same outcome as this one
HybCall(op, before, blind_error, found, divergence_angle, ret, nosig_run, run) ==
    [op |-> op, before |-> before, blind_error |-> blind_error, found |-> found,
     divergence |-> divergence_angle, ret |-> ret, nosig_run |-> nosig_run,
     run |-> run]

HybInit ==
    /\ hyb = HybridErrorSource
    /\ hyb_call = HybCall("init", hyb, 0, None, 0, RaiseNoSignal, 0,
                          [detected |-> FALSE, length |-> 0])
    /\ hyb_calls = 0

\* a call of compute_error(): blind errors -12 and 12, an optical error 0 or
\* 12 or no keypoint, a divergence under, at or over max_divergence
HybComputeError ==
    /\ hyb_calls < MaxCalls
    /\ \E b \in {-12, 12}, found \in {None} \cup {Some(e) : e \in {0, 12}},
          d \in {1, 2, 3} :
          /\ found = None => d = 1
          /\ LET r == hybrid_compute_error(hyb, b, found, d)
             IN  /\ hyb' = r.hybrid
                 /\ hyb_call' = HybCall("compute_error", hyb, b, found, d, r.ret,
                                        IF found # None THEN 0
                                        ELSE IF hyb.state = "optical" \/ hyb_call.nosig_run > 0
                                             THEN hyb_call.nosig_run + 1
                                             ELSE 0,
                                        [detected |-> found # None,
                                         length |->
                                            IF hyb_call.run.detected = (found # None)
                                            THEN hyb_call.run.length + 1
                                            ELSE 1])
    /\ hyb_calls' = hyb_calls + 1
    /\ UNCHANGED << now, tracker_vars, pid_vars, telem_vars, maf_vars, ext_vars >>

(***************************************************************************)
(* The telemetry dict of a TelemSource (Tracker, CameraTarget), written by *)
(* _set_telem_channels in the control thread and read by                   *)
(* get_telem_channels in the telemetry thread, statement by statement.  A  *)
(* dict is an object of the heap: a function from channel names to values. *)
(***************************************************************************)
\* calls of _set_telem_channels, the one of the constructor included
MaxWrites == 3

\* calls of get_telem_channels
MaxReads == 2

\* a channel name: f'{name}_{axis}', or 'num_iterations' for no axis
Channel(name, axis) == << name, axis >>

\* Tracker._set_telem_channels: the channels in the order of assignment
TrackerChannels ==
    << Channel("num_iterations", "-") >>
    \o << Channel("rate", Axes[1]), Channel("error", Axes[1]),
          Channel("controller_int", Axes[1]), Channel("controller_out", Axes[1]) >>
    \o << Channel("rate", Axes[2]), Channel("error", Axes[2]),
          Channel("controller_int", Axes[2]), Channel("controller_out", Axes[2]) >>

\* CameraTarget.process_sensor_data: the channels of its dict telem
CameraChannels == { Channel("target_cam_x", "-"), Channel("target_cam_y", "-") }

\* the value a call writes to each channel: the number of the call and
\* whether it had a measurement (a valid error; a target in the frame)
TelemValue(call, e) == [call |-> call, valid |-> AnyValid(e)]

\* a faulty writer: error_<axis> is never set
HasDegNever(e, axis) == FALSE

\* Tracker._set_telem_channels, lines 495-498: self.error[axis].deg exists
\* (AttributeError is raised on None and passed over)
HasDeg(e, axis) == e[axis] # None

\* the dict {} and d[k] = v
EmptyDict == << >>

DictSet(d, k, v) == (k :> v) @@ d

\* identities of the dicts a thread still refers to
LiveRefs == {chans_ref} \cup {returned[i].ref : i \in 1..Len(returned)}
            \cup (IF rd.chans = None THEN {} ELSE {rd.chans[1]})

\* a dict object not in use
FreshRef == CHOOSE r \in 1..(MaxWrites + MaxReads + 2) : r \notin DOMAIN heap

\* the heap with object r bound to dict d, objects no one refers to dropped
HeapWith(r, d, live) == [x \in (DOMAIN heap \cap live) \cup {r} |-> IF x = r THEN d ELSE heap[x]]

\* the state after the constructor, which calls _set_telem_channels():
\* the Tracker with no error yet, the CameraTarget with no dict
TelemInit(sources) ==
    /\ telem_source \in sources
    /\ telem_mutex = "free"
    /\ chans_ref = 1
    /\ heap = [r \in {1} |->
                 IF telem_source = "Tracker"
                 THEN [k \in {TrackerChannels[i] : i \in 1..Len(TrackerChannels)}
                            \ {Channel("error", a) : a \in AxisSet}
                         |-> TelemValue(1, NoSignalError)]
                 ELSE EmptyDict]
    /\ wr = [pc |-> "idle", key |-> 0, error |-> NoSignalError, calls |-> 1]
    /\ rd = [pc |-> "idle", chans |-> None, reads |-> 0]
    /\ returned = << >>

\* what the two threads of the telemetry dict leave alone
TelemFrame == UNCHANGED << now, tracker_vars, pid_vars, hyb_vars, maf_vars, ext_vars >>

\* _set_telem_channels: self._telem_mutex.acquire(), with the state of the
\* source at this call
SetTelemAcquire ==
    /\ wr.pc = "idle"
    /\ wr.calls < MaxWrites
    /\ telem_mutex = "free"
    /\ telem_mutex' = "writer"
    /\ \E e \in {NoSignalError, LowError} : wr' = [wr EXCEPT !.pc = "locked", !.error = e]
    /\ UNCHANGED << telem_source, heap, chans_ref, rd, returned >>
    /\ TelemFrame

\* self._telem_chans = {}
SetTelemClear ==
    /\ wr.pc = "locked"
    /\ LET r == FreshRef
       IN  /\ chans_ref' = r
           /\ heap' = HeapWith(r, EmptyDict, LiveRefs \ {chans_ref})
    /\ wr' = [wr EXCEPT !.pc = "fill", !.key = 1]
    /\ UNCHANGED << telem_source, telem_mutex, rd, returned >>
    /\ TelemFrame

\* Tracker._set_telem_channels, lines 492-500: one assignment to the dict
\* (none for error_<axis> when the error has no .deg);
\* CameraTarget._set_telem_channels, lines 432-433: update(chans) if chans
\* is not None
SetTelemFill ==
    /\ wr.pc = "fill"
    /\ LET v == TelemValue(wr.calls + 1, wr.error)
           d == heap[chans_ref]
       IN  IF telem_source = "Tracker"
           THEN LET k == TrackerChannels[wr.key]
                IN  /\ heap' = [heap EXCEPT ![chans_ref] =
                                  IF k[1] = "error" /\ ~HasDeg(wr.error, k[2]) THEN d
                                  ELSE DictSet(d, k, v)]
                    /\ wr' = IF wr.key < Len(TrackerChannels)
                             THEN [wr EXCEPT !.key = @ + 1]
                             ELSE [wr EXCEPT !.pc = "filled", !.key = 0]
           ELSE /\ heap' = [heap EXCEPT ![chans_ref] =
                              IF AnyValid(wr.error)
                              THEN [k \in CameraChannels |-> v] @@ d
                              ELSE d]
                /\ wr' = [wr EXCEPT !.pc = "filled", !.key = 0]
    /\ UNCHANGED << telem_source, telem_mutex, chans_ref, rd, returned >>
    /\ TelemFrame

\* self._telem_mutex.release()
SetTelemRelease ==
    /\ wr.pc = "filled"
    /\ telem_mutex' = "free"
    /\ wr' = [wr EXCEPT !.pc = "idle", !.calls = @ + 1]
    /\ UNCHANGED << telem_source, heap, chans_ref, rd, returned >>
    /\ TelemFrame

\* a faulty reader: the dict is copied without waiting for the mutex
ReaderMayEnterAlways == TRUE

\* threading.Lock.acquire() returns when the lock is free
ReaderMayEnter == telem_mutex = "free"

\* get_telem_channels: self._telem_mutex.acquire()
GetTelemAcquire ==
    /\ rd.pc = "idle"
    /\ rd.reads < MaxReads
    /\ ReaderMayEnter
    /\ telem_mutex' = "reader"
    /\ rd' = [rd EXCEPT !.pc = "locked"]
    /\ UNCHANGED << telem_source, heap, chans_ref, wr, returned >>
    /\ TelemFrame

\* chans = self._telem_chans.copy()
GetTelemCopy ==
    /\ rd.pc = "locked"
    /\ LET r == FreshRef
       IN  /\ heap' = HeapWith(r, heap[chans_ref], LiveRefs)
           /\ rd' = [rd EXCEPT !.pc = "copied", !.chans = Some(r)]
    /\ UNCHANGED << telem_source, telem_mutex, chans_ref, wr, returned >>
    /\ TelemFrame

\* self._telem_mutex.release(); return chans
GetTelemReturn ==
    /\ rd.pc = "copied"
    /\ telem_mutex' = "free"
    /\ returned' = Append(returned, [ref |-> rd.chans[1], value |-> heap[rd.chans[1]],
                                     calls |-> wr.calls])
    /\ rd' = [rd EXCEPT !.pc = "idle", !.chans = None, !.reads = @ + 1]
    /\ UNCHANGED << telem_source, heap, chans_ref, wr >>
    /\ TelemFrame

(***************************************************************************)
(* A MovingAverageFilter on its own: advance(value, sample_period) called  *)
(* again and again with periods >= 0.                                      *)
(***************************************************************************)
MafInit(depths) ==
    /\ \E d \in depths : maf = MovingAverageFilter(d)
    /\ maf_call = [op |-> "init", before |-> maf, value |-> 0, sample_period |-> 0, ret |-> 0]
    /\ maf_calls = 0

\* advance(value, period) with a value of 0 or 60 and a period of none,
\* short, the depth of the filter or over it
MafAdvance ==
    /\ maf_calls < MaxCalls
    /\ \E v \in {0, 60}, sp \in {0, 1, 2, 3} :
          /\ maf' = advance_state(maf, v, sp)
          /\ maf_call' = [op |-> "advance", before |-> maf, value |-> v,
                          sample_period |-> sp, ret |-> filter_output(maf')]
    /\ maf_calls' = maf_calls + 1
    /\ UNCHANGED << now, tracker_vars, pid_vars, hyb_vars, telem_vars, ext_vars >>

\* MovingAverageFilter.reset()
MafReset ==
    /\ maf_calls < MaxCalls
    /\ maf_call.op = "advance"
    /\ maf' = filter_reset(maf)
    /\ maf_call' = [op |-> "reset", before |-> maf, value |-> 0, sample_period |-> 0,
                    ret |-> 0]
    /\ maf_calls' = maf_calls + 1
    /\ UNCHANGED << now, tracker_vars, pid_vars, hyb_vars, telem_vars, ext_vars >>

(***************************************************************************)
(* The mount model (src/track/model.py), in whole degrees.  Longitude(x)   *)
(* is astropy's Longitude: the angle wrapped to [0, 360).                  *)
(***************************************************************************)
Longitude(x) == x % 360

\* MountEncoderPositions(encoder_0, encoder_1)
MountEncoderPositions(e0, e1) == << e0, e1 >>

\* UnitSphericalRepresentation(lon, lat)
UnitSpherical(lon, lat) == [lon |-> Longitude(lon), lat |-> lat]

\* a faulty transformation: the latitude is added on the west side too
spherical_to_encoder_west_sign(mount_coord, meridian_side) ==
    IF meridian_side = "EAST"
    THEN MountEncoderPositions(Longitude(90 - mount_coord.lon), Longitude(90 + mount_coord.lat))
    ELSE MountEncoderPositions(Longitude(270 - mount_coord.lon), Longitude(270 + mount_coord.lat))

\* spherical_to_encoder(mount_coord, meridian_side)
spherical_to_encoder(mount_coord, meridian_side) ==
    IF meridian_side = "EAST"
    THEN MountEncoderPositions(Longitude(90 - mount_coord.lon), Longitude(90 + mount_coord.lat))
    ELSE MountEncoderPositions(Longitude(270 - mount_coord.lon), Longitude(270 - mount_coord.lat))

\* encoder_to_spherical(encoder_positions)
encoder_to_spherical(encoder_positions) ==
    IF encoder_positions[2] < 180
    THEN UnitSpherical(90 - encoder_positions[1], encoder_positions[2] - 90)
    ELSE UnitSpherical(270 - encoder_positions[1], 270 - encoder_positions[2])

\* spherical_to_encoder of a coordinate, then encoder_to_spherical of the
\* result, for mount-frame longitudes all round and latitudes with |lat| < 90
EncoderRoundTrip ==
    /\ \E lon \in {30 * k : k \in 0..11} \cup {1, 359},
          lat \in {-89, -60, -45, -1, 0, 1, 45, 60, 89},
          side \in {"EAST", "WEST"} :
          LET enc == spherical_to_encoder(UnitSpherical(lon, lat), side)
          IN  fn_call' = [op |-> "spherical_to_encoder", lon |-> lon, lat |-> lat,
                          meridian_side |-> side, encoders |-> enc,
                          east_branch |-> enc[2] < 180,
                          back |-> encoder_to_spherical(enc)]
    /\ UNCHANGED << base_vars, cam, ctgt, pad, logger >>

(***************************************************************************)
(* MountModel.world_to_mount and mount_to_world.  The rotation of          *)
(* tip_axis is computed on integer direction vectors: the directions with  *)
(* coordinates in {-1, 0, 1} that lie on an axis or on the diagonal of two *)
(* axes (longitudes in steps of 45 degrees at latitude 0, in steps of 90   *)
(* at latitude +/-45, and the two poles), which rotations by multiples of  *)
(* 90 degrees about the x and y axes map to one another.                   *)
(***************************************************************************)
\* the sign of cos(a) and of sin(a), for a a multiple of 45 degrees; the
\* cosine and sine themselves when a is a multiple of 90
CosSign(a) ==
    LET b == a % 360
    IN  IF b \in {0, 45, 315} THEN 1 ELSE IF b \in {90, 270} THEN 0 ELSE -1

\* coord.represent_as(CartesianRepresentation): the direction of coord
to_cartesian(coord) ==
    IF coord.lat = 90 THEN << 0, 0, 1 >>
    ELSE IF coord.lat = -90 THEN << 0, 0, -1 >>
    ELSE << CosSign(coord.lon), CosSign(coord.lon - 90), coord.lat \div 45 >>

\* arctan2(y, x) in degrees, in [0, 360), for x and y in {-1, 0, 1}
ArcTan2(y, x) ==
    CASE x = 0 /\ y = 0 -> 0
      [] x = 1 /\ y = 0 -> 0
      [] x = 1 /\ y = 1 -> 45
      [] x = 0 /\ y = 1 -> 90
      [] x = -1 /\ y = 1 -> 135
      [] x = -1 /\ y = 0 -> 180
      [] x = -1 /\ y = -1 -> 225
      [] x = 0 /\ y = -1 -> 270
      [] x = 1 /\ y = -1 -> 315

\* v.represent_as(UnitSphericalRepresentation)
to_spherical(v) ==
    IF v[1] = 0 /\ v[2] = 0 THEN UnitSpherical(0, 90 * v[3])
    ELSE UnitSpherical(ArcTan2(v[2], v[1]), 45 * v[3])

\* astropy rotation_matrix(angle, axis) for a unit axis and an angle that is
\* a multiple of 90 degrees
rotation_matrix(angle, axis) ==
    LET c == CosSign(angle)
        s == CosSign(angle - 90)
        outer(i, j) == axis[i] * axis[j] * (1 - c)
    IN  << << outer(1, 1) + c,           outer(1, 2) + axis[3] * s, outer(1, 3) - axis[2] * s >>,
           << outer(2, 1) - axis[3] * s, outer(2, 2) + c,           outer(2, 3) + axis[1] * s >>,
           << outer(3, 1) + axis[2] * s, outer(3, 2) - axis[1] * s, outer(3, 3) + c >> >>

\* coord_cart.transform(rot): the matrix applied to the vector
Transform(rot, v) ==
    [i \in 1..3 |-> rot[i][1] * v[1] + rot[i][2] * v[2] + rot[i][3] * v[3]]

\* tip_axis(coord, axis_lon, rot_angle)
tip_axis(coord, axis_lon, rot_angle) ==
    LET rot == rotation_matrix(rot_angle, to_cartesian(UnitSpherical(axis_lon, 0)))
    IN  to_spherical(Transform(rot, to_cartesian(coord)))

\* SkyCoord(ra, dec)
SkyCoord(ra, dec) == [ra |-> Longitude(ra), dec |-> dec]

\* ModelParameters
ModelParameters(a0, a1, lon, angle) ==
    [axis_0_offset |-> a0, axis_1_offset |-> a1, pole_rot_axis_lon |-> lon,
     pole_rot_angle |-> angle]

\* a faulty transformation: the pole is tipped the same way as in world_to_mount
mount_to_world_same_tip(model_params, encoder_positions, sidereal_time) ==
    LET encoders_corrected ==
            MountEncoderPositions(
                Longitude(encoder_positions[1] - model_params.axis_0_offset),
                Longitude(encoder_positions[2] - model_params.axis_1_offset))
        us_mnt_offset == encoder_to_spherical(encoders_corrected)
        us_local == tip_axis(us_mnt_offset, model_params.pole_rot_axis_lon,
                             model_params.pole_rot_angle)
    IN  SkyCoord(sidereal_time - us_local.lon, us_local.lat)

\* MountModel.mount_to_world(encoder_positions, t), where sidereal_time is
\* t.sidereal_time('mean')
mount_to_world(model_params, encoder_positions, sidereal_time) ==
    LET encoders_corrected ==
            MountEncoderPositions(
                Longitude(encoder_positions[1] - model_params.axis_0_offset),
                Longitude(encoder_positions[2] - model_params.axis_1_offset))
        us_mnt_offset == encoder_to_spherical(encoders_corrected)
        us_local == tip_axis(us_mnt_offset, model_params.pole_rot_axis_lon,
                             -model_params.pole_rot_angle)
    IN  SkyCoord(sidereal_time - us_local.lon, us_local.lat)

\* MountModel.world_to_mount(sky_coord, meridian_side, t)
world_to_mount(model_params, sky_coord, meridian_side, sidereal_time) ==
    LET ha == sidereal_time - sky_coord.ra
        sc_local == UnitSpherical(ha, sky_coord.dec)
        us_mnt_offset == tip_axis(sc_local, model_params.pole_rot_axis_lon,
                                  model_params.pole_rot_angle)
        encoders_uncorrected == spherical_to_encoder(us_mnt_offset, meridian_side)
    IN  MountEncoderPositions(
            Longitude(encoders_uncorrected[1] + model_params.axis_0_offset),
            Longitude(encoders_uncorrected[2] + model_params.axis_1_offset))

\* the arguments of a call of world_to_mount, and the model parameters of
\* the MountModel it is called on: sky coordinates away from the pole
\* (declination 0 with right ascension in steps of 45 degrees, declination
\* +/-45 in steps of 90), sidereal times that keep the hour angle on such a
\* step, encoder offsets, and pole tips in steps of 90 degrees
WorldArgs ==
    LET sky == {SkyCoord(45 * k, 0) : k \in 0..7}
               \cup {SkyCoord(90 * k, d) : k \in 0..3, d \in {-45, 45}}
        params == {ModelParameters(a0, a1, lon, angle) :
                      a0 \in {0, 10, -170}, a1 \in {0, 100},
                      lon \in {0, 90, 180, -90}, angle \in {0, 90, 180, -90}}
        all == {[op |-> "args", model_params |-> mp, sky_coord |-> sc,
                 meridian_side |-> side, sidereal_time |-> lst] :
                   mp \in params, sc \in sky, side \in {"EAST", "WEST"},
                   lst \in {0, 45, 90, 270}}
    IN  {a \in all : a.sidereal_time = 45 => a.sky_coord.dec = 0}

\* world_to_mount of a sky coordinate, then mount_to_world of the result
WorldRoundTrip ==
    /\ fn_call.op = "args"
    /\ LET enc == world_to_mount(fn_call.model_params, fn_call.sky_coord,
                                 fn_call.meridian_side, fn_call.sidereal_time)
       IN  fn_call' = [op |-> "world_to_mount",
                       model_params |-> fn_call.model_params,
                       sky_coord |-> fn_call.sky_coord,
                       meridian_side |-> fn_call.meridian_side,
                       sidereal_time |-> fn_call.sidereal_time,
                       encoders |-> enc,
                       back |-> mount_to_world(fn_call.model_params, enc,
                                               fn_call.sidereal_time)]
    /\ UNCHANGED << base_vars, cam, ctgt, pad, logger >>

(***************************************************************************)
(* BlindErrorSource.compute_error, from the position of the mount and the  *)
(* position of the target to the error of each axis (whole degrees), with  *)
(* no offset callback and no backlash compensation.                        *)
(***************************************************************************)
\* mathutils.wrap_error: the angle wrapped to (-180, +180]
wrap_error(x) ==
    LET r == x % 360
    IN  IF r > 180 THEN r - 360 ELSE r

\* the ra error before the limit region is looked at
ra_wrapped(meridian_side, mount_position, adjusted_position) ==
    LET mount_side == IF mount_position.pdec < 180 THEN "east" ELSE "west"
    IN  IF meridian_side = mount_side
        THEN wrap_error(mount_position.ra - adjusted_position.ra)
        ELSE wrap_error(mount_position.ra - adjusted_position.ra + 180)

\* a faulty limit handling: the ra error is never shifted
ra_limit_never(pra, e) == e

\* a faulty limit handling: the ra error is shifted by two turns
ra_limit_two_turns(pra, e) ==
    IF pra - e > 360 THEN e + 720
    ELSE IF pra - e < 0 THEN e - 720
    ELSE e

\* the ra error moved out of the axis limit region
ra_limit(pra, e) ==
    IF pra - e > 360 THEN e + 360
    ELSE IF pra - e < 0 THEN e - 360
    ELSE e

\* a faulty axis error: the difference of an azimuth is not wrapped
axis_error_unwrapped(axis, meridian_side, mount_position, adjusted_position) ==
    mount_position[axis] - adjusted_position[axis]

\* the error of one axis
axis_error(axis, meridian_side, mount_position, adjusted_position) ==
    IF axis = "dec"
    THEN IF meridian_side = "east"
         THEN IF mount_position.pdec < 180
              THEN mount_position.dec - adjusted_position.dec
              ELSE 180 - mount_position.dec - adjusted_position.dec
         ELSE IF mount_position.pdec < 180
              THEN adjusted_position.dec + mount_position.dec - 180
              ELSE adjusted_position.dec - mount_position.dec
    ELSE IF axis = "ra"
    THEN ra_limit(mount_position.pra,
                  ra_wrapped(meridian_side, mount_position, adjusted_position))
    ELSE wrap_error(mount_position[axis] - adjusted_position[axis])

\* BlindErrorSource.compute_error()
blind_compute_error(axes, meridian_side, mount_position, target_position) ==
    [axis \in {axes[1], axes[2]} |->
        axis_error(axis, meridian_side, mount_position, target_position)]

\* a BlindErrorSource, its mount and its target before compute_error():
\* the axis names of the mount, the side of the meridian, what
\* mount.get_position() gives (with the positions of the physical encoders
\* of an equatorial mount) and the position of the target from PyEphem
BlindArgs ==
    LET lons == {0, 1, 180, 359}
        lats == {-90, -30, 30, 90}
        altaz == {[az |-> a, alt |-> b] : a \in lons, b \in lats}
        mounts(axes) ==
            IF axes[1] = "az" THEN altaz
            ELSE {[ra |-> a, dec |-> b, pra |-> c, pdec |-> d] :
                    a \in lons, b \in lats,
                    c \in {0, 10, 180, 359}, d \in {0, 179, 180, 359}}
        targets(axes) ==
            IF axes[1] = "az" THEN altaz
            ELSE {[ra |-> a, dec |-> b] : a \in lons, b \in lats}
    IN  UNION {{[op |-> "args", axes |-> axes, meridian_side |-> side,
                 mount_position |-> m, target_position |-> t] :
                   side \in {"east", "west"}, m \in mounts(axes),
                   t \in targets(axes)} :
               axes \in {<< "az", "alt" >>, << "ra", "dec" >>}}

BlindComputeError ==
    /\ fn_call.op = "args"
    /\ fn_call' = [op |-> "compute_error", axes |-> fn_call.axes,
                   meridian_side |-> fn_call.meridian_side,
                   mount_position |-> fn_call.mount_position,
                   target_position |-> fn_call.target_position,
                   error |-> blind_compute_error(fn_call.axes, fn_call.meridian_side,
                                                 fn_call.mount_position,
                                                 fn_call.target_position)]
    /\ UNCHANGED << base_vars, cam, ctgt, pad, logger >>

(***************************************************************************)
(* OpticalErrorSource.compute_error(retries) with its loop over the frames *)
(* of the camera, and the choice of the target among the keypoints of a    *)
(* frame.  A keypoint is its position pt = << column, row >> in pixels.    *)
(***************************************************************************)
\* the greatest number of retries asked for
MaxRetries == 2

\* compute_error(), lines 334-343: the error in the two axes, taken from the
\* first keypoint of the list; the frame is 4 by 4 pixels and a pixel spans
\* 3 units of angle
first_keypoint_error(keypoints) ==
    LET frame_center_px == << 2, 2 >>
        degrees_per_pixel == 3
        error_x_px == frame_center_px[1] - keypoints[1][1]
        error_y_px == keypoints[1][2] - frame_center_px[2]
    IN  [x |-> error_x_px * degrees_per_pixel, y |-> error_y_px * degrees_per_pixel]

\* a faulty loop: the first frame without a keypoint ends the call
RECURSIVE optical_compute_error_no_retry(_, _, _, _)
optical_compute_error_no_retry(o, frames, retries, examined) ==
    LET keypoints == Head(frames)
        r == optical_compute_error(o, IF keypoints = << >> THEN None ELSE Some(0))
    IN  [optical |-> r.optical, raised |-> r.raised, examined |-> examined + 1,
         error |-> IF r.raised THEN None ELSE Some(first_keypoint_error(keypoints))]

\* OpticalErrorSource.compute_error(retries): frames are the lists of
\* keypoints detected in the frames that get_fresh_frame() returns, one
\* after the other, and examined counts the frames taken so far;
\* [optical |-> the source afterwards, raised |-> NoSignalException,
\*  error |-> the error returned, examined |-> the frames taken]
RECURSIVE optical_compute_error_loop(_, _, _, _)
optical_compute_error_loop(o, frames, retries, examined) ==
    LET keypoints == Head(frames)
    IN  IF keypoints = << >> /\ retries > 0
        THEN optical_compute_error_loop(o, Tail(frames), retries - 1, examined + 1)
        ELSE LET r == optical_compute_error(o, IF keypoints = << >> THEN None
                                               ELSE Some(0))
             IN  [optical |-> r.optical, raised |-> r.raised,
                  examined |-> examined + 1,
                  error |-> IF r.raised THEN None
                            ELSE Some(first_keypoint_error(keypoints))]

\* CameraTarget._get_keypoint_xy and _keypoint_nearest_center_frame: the
\* first keypoint of the list that no other is nearer to the centre than;
\* the square of the distance orders the keypoints as the distance does
RECURSIVE keypoint_nearest_center_frame(_, _)
keypoint_nearest_center_frame(keypoints, target_keypoint) ==
    LET frame_center_px == << 2, 2 >>
        dist2(keypoint) ==
            LET keypoint_x_px == keypoint[1] - frame_center_px[1]
                keypoint_y_px == frame_center_px[2] - keypoint[2]
            IN  keypoint_x_px * keypoint_x_px + keypoint_y_px * keypoint_y_px
    IN  IF keypoints = << >> THEN target_keypoint
        ELSE IF target_keypoint = None \/ dist2(Head(keypoints)) < dist2(target_keypoint[1])
             THEN keypoint_nearest_center_frame(Tail(keypoints), Some(Head(keypoints)))
             ELSE keypoint_nearest_center_frame(Tail(keypoints), target_keypoint)

\* the calls of compute_error(): the counters of the source (one of them is
\* always 0), the retries, and the keypoints of the retries + 1 frames that
\* the call can take: none, one, or two in either order, at different or
\* at equal distances from the centre
OpticalArgs ==
    LET lists == {<< >>, << << 2, 1 >> >>, << << 0, 2 >> >>,
                  << << 2, 1 >>, << 0, 2 >> >>, << << 0, 2 >>, << 2, 1 >> >>,
                  << << 3, 2 >>, << 2, 1 >> >>}
        counters == {<< 0, 0 >>, << 2, 0 >>, << 0, 2 >>}
    IN  UNION {{[op |-> "args", retries |-> r, frames |-> f,
                 optical |-> [consec_detect_frames |-> c[1],
                              consec_no_detect_frames |-> c[2]]] :
                   f \in [1..(r + 1) -> lists], c \in counters} :
               r \in 0..MaxRetries}

OpticalComputeError ==
    /\ fn_call.op = "args"
    /\ LET r == optical_compute_error_loop(fn_call.optical, fn_call.frames,
                                           fn_call.retries, 0)
       IN  fn_call' = [op |-> "compute_error", retries |-> fn_call.retries,
                       frames |-> fn_call.frames, before |-> fn_call.optical,
                       optical |-> r.optical, raised |-> r.raised,
                       error |-> r.error, examined |-> r.examined]
    /\ UNCHANGED << base_vars, cam, ctgt, pad, logger >>

(***************************************************************************)
(* WebCam: the driver fills the queued buffers with frames in the order of *)
(* their arrival, and get_frame() on the control thread takes them out.  A *)
(* frame is the number of its arrival.                                     *)
(***************************************************************************)
\* frames that arrive, and calls of get_frame()
MaxFrames == 4
MaxGets == 3

\* _setup_buffers(buf_count=15)
buf_count == 15

\* the record of a call of get_frame(): what it returned or raised, and the
\* number of frames that had arrived when it was over
CamCall(op, timeout, ret, raised, newest) ==
    [op |-> op, timeout |-> timeout, ret |-> ret, raised |-> raised,
     newest |-> newest]

\* WebCam.__init__: the buffers are queued and empty, capture is started
WebCam ==
    [queue |-> << >>, arrived |-> 0, returned |-> << >>, gets |-> 0,
     call |-> CamCall("init", "inf", None, "none", 0)]

\* the driver has filled a buffer with a new frame
CamFrameArrives ==
    /\ cam.arrived < MaxFrames
    /\ Len(cam.queue) < buf_count
    /\ cam' = [cam EXCEPT !.arrived = @ + 1, !.queue = Append(@, cam.arrived + 1)]
    /\ UNCHANGED << base_vars, fn_call, ctgt, pad, logger >>

\* block_until_frame_ready(timeout): select.select takes no keyword
\* arguments, so the call with timeout=timeout raises TypeError
block_until_frame_ready(timeout) ==
    IF timeout # "inf" THEN "TypeError" ELSE "none"

\* WebCam.get_frame(timeout), for the timeout math.inf (the default) or one
\* of seconds.  With no timeout the call is over once a frame is ready; it
\* then reads every frame that is ready and returns the last.
CamGetFrame ==
    /\ cam.gets < MaxGets
    /\ \E timeout \in {"inf", "1.0"} :
          LET raised == block_until_frame_ready(timeout)
              frames == cam.queue
          IN  IF raised # "none"
              THEN cam' = [cam EXCEPT
                              !.gets = @ + 1,
                              !.call = CamCall("get_frame", timeout, None, raised,
                                               cam.arrived)]
              ELSE /\ Len(cam.queue) > 0
                   /\ cam' = [cam EXCEPT
                                 !.queue = << >>,
                                 !.gets = @ + 1,
                                 !.returned = Append(@, frames[Len(frames)]),
                                 !.call = CamCall("get_frame", timeout,
                                                  IF Len(frames) = 0 THEN None
                                                  ELSE Some(frames[Len(frames)]),
                                                  raised, cam.arrived)]
    /\ UNCHANGED << base_vars, fn_call, ctgt, pad, logger >>

(***************************************************************************)
(* CameraTarget: process_sensor_data() caches the position of the target   *)
(* found in a camera frame and get_position() gives the cached position.   *)
(* The position computed from a frame is named by the number of the call   *)
(* of process_sensor_data() that computed it.                              *)
(***************************************************************************)
\* calls of process_sensor_data()
MaxSensorCalls == 8

\* CameraTarget.__init__
CameraTarget ==
    [target_position |-> None, sensor_calls |-> 0, outcome |-> "init",
     call |-> [op |-> "init", raised |-> "none", ret |-> None]]

\* target_position after process_sensor_data(): an exception of get_frame
\* leaves the method before any assignment
target_position_after(t, outcome) ==
    IF outcome \in {"None", "no_keypoints"} THEN None
    ELSE IF outcome = "keypoints" THEN Some(t.sensor_calls + 1)
    ELSE t.target_position

\* CameraTarget.process_sensor_data().  camera.get_frame(timeout) returns
\* a frame in which find_features finds keypoints or none, it returns None,
\* or it raises (ASICamera.take_exposure raises CameraTimeout when the
\* timeout expires, WebCam.get_frame TypeError for a finite timeout).
TargetProcessSensorData ==
    /\ ctgt.sensor_calls < MaxSensorCalls
    /\ \E outcome \in {"keypoints", "no_keypoints", "None", "raise"} :
          ctgt' = [target_position |-> target_position_after(ctgt, outcome),
                   sensor_calls |-> ctgt.sensor_calls + 1,
                   outcome |-> outcome,
                   call |-> [op |-> "process_sensor_data",
                             raised |-> IF outcome = "raise" THEN "CameraError"
                                        ELSE "none",
                             ret |-> None]]
    /\ UNCHANGED << base_vars, fn_call, cam, pad, logger >>

\* CameraTarget.get_position(t)
TargetGetPosition ==
    /\ ctgt' = [ctgt EXCEPT !.call =
                   IF ctgt.target_position = None
                   THEN [op |-> "get_position", raised |-> "IndeterminatePosition",
                         ret |-> None]
                   ELSE [op |-> "get_position", raised |-> "none",
                         ret |-> ctgt.target_position]]
    /\ UNCHANGED << base_vars, fn_call, cam, pad, logger >>

(***************************************************************************)
(* Gamepad: the integrator thread, the input thread and a reader, one      *)
(* step per load or store of an attribute of the object.  The integrators  *)
(* are counted in whole units and a stick is at -1, 0 or +1, so that every *)
(* product is whole.                                                       *)
(***************************************************************************)
\* passes of the loop of the integrator thread, and events of the gamepad
MaxPadLoops == 2
MaxPadEvents == 1

\* int_limit, and left_gain * int_loop_period and right_gain *
\* int_loop_period, in units of the integrators
int_limit == 3
left_step == 2
right_step == 1

\* the events of the gamepad: a stick moved to the position event.state /
\* MAX_ANALOG_VAL, or a button pressed
PadEvents ==
    {[code |-> c, state |-> v] :
        c \in {"ABS_X", "ABS_Y", "ABS_RX", "ABS_RY"}, v \in {-1, 0, 1}}
    \cup {[code |-> c, state |-> 1] : c \in {"BTN_NORTH", "BTN_WEST"}}

\* Gamepad.__init__, and the two threads and the reader at their start
Gamepad ==
    [left_x |-> 0, left_y |-> 0, right_x |-> 0, right_y |-> 0,
     int_x |-> 0, int_y |-> 0,
     integ |-> [pc |-> "copy_left_x", left_x |-> 0, left_y |-> 0, right_x |-> 0,
                right_y |-> 0, tmp |-> 0, loops |-> 0],
     events |-> 0,
     reader |-> [pc |-> "idle", x |-> 0, ret |-> None]]

PadFrame == UNCHANGED << base_vars, fn_call, cam, ctgt, logger >>

\* __get_input: one event of gamepad.read()
PadInputEvent ==
    /\ pad.events < MaxPadEvents
    /\ \E event \in PadEvents :
          pad' = [(CASE event.code = "ABS_X" -> [pad EXCEPT !.left_x = event.state]
                     [] event.code = "ABS_Y" -> [pad EXCEPT !.left_y = event.state]
                     [] event.code = "ABS_RX" -> [pad EXCEPT !.right_x = event.state]
                     [] event.code = "ABS_RY" -> [pad EXCEPT !.right_y = event.state]
                     [] event.code = "BTN_NORTH" -> [pad EXCEPT !.int_x = 0]
                     [] event.code = "BTN_WEST" -> [pad EXCEPT !.int_y = 0])
                  EXCEPT !.events = pad.events + 1]
    /\ PadFrame

\* __integrator, lines 116-119: the copies of the stick positions
PadCopySticks ==
    /\ pad.integ.loops < MaxPadLoops
    /\ \/ /\ pad.integ.pc = "copy_left_x"
          /\ pad' = [pad EXCEPT !.integ.left_x = pad.left_x, !.integ.pc = "copy_left_y"]
       \/ /\ pad.integ.pc = "copy_left_y"
          /\ pad' = [pad EXCEPT !.integ.left_y = pad.left_y, !.integ.pc = "copy_right_x"]
       \/ /\ pad.integ.pc = "copy_right_x"
          /\ pad' = [pad EXCEPT !.integ.right_x = pad.right_x, !.integ.pc = "copy_right_y"]
       \/ /\ pad.integ.pc = "copy_right_y"
          /\ pad' = [pad EXCEPT !.integ.right_y = pad.right_y, !.integ.pc = "add_left_x"]
    /\ PadFrame

\* one of the statements of lines 124-131: the test of the copy and the
\* load of the integrator with the addition
PadAddStep(at, stick, integrator, step, store, skip) ==
    /\ pad.integ.pc = at
    /\ pad' = IF Abs(stick) >= 1   \* abs(stick) > MIN_CHANGE, the stick at -1, 0 or +1
              THEN [pad EXCEPT !.integ.tmp = integrator + step * stick,
                               !.integ.pc = store]
              ELSE [pad EXCEPT !.integ.pc = skip]

PadAdd ==
    /\ \/ PadAddStep("add_left_x", pad.integ.left_x, pad.int_x, left_step,
                     "store_left_x", "add_left_y")
       \/ PadAddStep("add_left_y", pad.integ.left_y, pad.int_y, left_step,
                     "store_left_y", "add_right_x")
       \/ PadAddStep("add_right_x", pad.integ.right_x, pad.int_x, right_step,
                     "store_right_x", "add_right_y")
       \/ PadAddStep("add_right_y", pad.integ.right_y, pad.int_y, right_step,
                     "store_right_y", "clip_x")
    /\ PadFrame

\* lines 125-131: the store of the sum to int_x or int_y
PadStore ==
    /\ \/ /\ pad.integ.pc = "store_left_x"
          /\ pad' = [pad EXCEPT !.int_x = pad.integ.tmp, !.integ.pc = "add_left_y"]
       \/ /\ pad.integ.pc = "store_left_y"
          /\ pad' = [pad EXCEPT !.int_y = pad.integ.tmp, !.integ.pc = "add_right_x"]
       \/ /\ pad.integ.pc = "store_right_x"
          /\ pad' = [pad EXCEPT !.int_x = pad.integ.tmp, !.integ.pc = "add_right_y"]
       \/ /\ pad.integ.pc = "store_right_y"
          /\ pad' = [pad EXCEPT !.int_y = pad.integ.tmp, !.integ.pc = "clip_x"]
    /\ PadFrame

\* lines 133-134: np.clip of the integrator that was loaded
PadClip ==
    /\ \/ /\ pad.integ.pc = "clip_x"
          /\ pad' = [pad EXCEPT !.integ.tmp = Clip(pad.int_x, -int_limit, int_limit),
                                !.integ.pc = "store_clip_x"]
       \/ /\ pad.integ.pc = "clip_y"
          /\ pad' = [pad EXCEPT !.integ.tmp = Clip(pad.int_y, -int_limit, int_limit),
                                !.integ.pc = "store_clip_y"]
    /\ PadFrame

\* lines 133-134: the store of the clipped value
PadStoreClip ==
    /\ \/ /\ pad.integ.pc = "store_clip_x"
          /\ pad' = [pad EXCEPT !.int_x = pad.integ.tmp, !.integ.pc = "clip_y"]
       \/ /\ pad.integ.pc = "store_clip_y"
          /\ pad' = [pad EXCEPT !.int_y = pad.integ.tmp, !.integ.pc = "sleep"]
    /\ PadFrame

\* line 136, and the next pass of the loop
PadSleep ==
    /\ pad.integ.pc = "sleep"
    /\ pad' = [pad EXCEPT !.integ.pc = "copy_left_x", !.integ.loops = @ + 1]
    /\ PadFrame

\* get_integrator(): the load of int_x
PadGetIntegratorX ==
    /\ pad.reader.pc = "idle"
    /\ pad' = [pad EXCEPT !.reader.pc = "int_y", !.reader.x = pad.int_x]
    /\ PadFrame

\* get_integrator(): the load of int_y and the return of the tuple
PadGetIntegratorY ==
    /\ pad.reader.pc = "int_y"
    /\ pad' = [pad EXCEPT !.reader.pc = "idle",
                          !.reader.ret = Some(<< pad.reader.x, pad.int_y >>)]
    /\ PadFrame

(***************************************************************************)
(* TelemLogger: the worker thread that polls the sources and posts a point *)
(* for each to the database, one step per source, and the thread that      *)
(* calls start() and stop().  A dict of channels is the set of its keys.   *)
(***************************************************************************)
\* polling rounds of the worker thread
MaxRounds == 2

\* TelemLogger.__init__ with two sources, in the order of the dict; thread
\* is where the worker thread is, source_i the source it polls next, points
\* what db.write_points() has been given, and failed is the number of
\* points written when an exception was caught
TelemLogger ==
    [running |-> FALSE, sources |-> << "tracker", "target" >>, thread |-> "new",
     source_i |-> 0, rounds |-> 0, points |-> << >>, failed |-> None]

\* start()
LoggerStart ==
    /\ logger.thread = "new"
    /\ logger' = [logger EXCEPT !.running = TRUE, !.thread = "head"]
    /\ UNCHANGED << base_vars, fn_call, cam, ctgt, pad >>

\* stop()
LoggerStop ==
    /\ logger.running
    /\ logger' = [logger EXCEPT !.running = FALSE]
    /\ UNCHANGED << base_vars, fn_call, cam, ctgt, pad >>

\* _worker_thread, lines 107-110: the head of the loop
WorkerHead ==
    /\ logger.thread = "head"
    /\ IF ~logger.running
       THEN logger' = [logger EXCEPT !.thread = "returned"]
       ELSE /\ logger.rounds < MaxRounds
            /\ logger' = [logger EXCEPT !.thread = "poll", !.source_i = 1,
                                        !.rounds = @ + 1]
    /\ UNCHANGED << base_vars, fn_call, cam, ctgt, pad >>

\* a faulty _post_point: an empty dict is written like any other
post_point_writes_empty(points, name, channels) ==
    Append(points, [measurement |-> name, fields |-> channels])

\* _post_point(name, channels) when db.write_points() returns: the points
\* written afterwards
post_point(points, name, channels) ==
    IF channels = {} THEN points
    ELSE Append(points, [measurement |-> name, fields |-> channels])

\* a faulty handler: the worker goes on with the next source
worker_on_exception_goes_on(l) ==
    [l EXCEPT !.failed = Some(Len(l.points)),
              !.source_i = IF @ < Len(l.sources) THEN @ + 1 ELSE 0,
              !.thread = IF l.source_i < Len(l.sources) THEN "poll" ELSE "sleep"]

\* _worker_thread, lines 114-117: the handler of an exception raised in the
\* round, after which the thread function returns
worker_on_exception(l) ==
    [l EXCEPT !.running = FALSE, !.thread = "returned", !.failed = Some(Len(l.points))]

\* _worker_thread, lines 112-113, for one source: get_telem_channels()
\* returns a dict, empty or not, or raises; _post_point() returns, or
\* db.write_points() raises
WorkerPost ==
    /\ logger.thread = "poll"
    /\ \E channels \in {{}, {"num_iterations", "error_mag"}},
          raises \in {"none", "get_telem_channels", "write_points"} :
          LET next == IF logger.source_i < Len(logger.sources)
                      THEN [logger EXCEPT !.source_i = @ + 1]
                      ELSE [logger EXCEPT !.source_i = 0, !.thread = "sleep"]
          IN  IF raises = "get_telem_channels"
                 \/ (raises = "write_points" /\ channels # {})
              THEN logger' = worker_on_exception(logger)
              ELSE logger' = [next EXCEPT !.points =
                                 post_point(@, logger.sources[logger.source_i], channels)]
    /\ UNCHANGED << base_vars, fn_call, cam, ctgt, pad >>

\* _worker_thread, lines 118-121: the rest of the period
WorkerSleep ==
    /\ logger.thread = "sleep"
    /\ logger' = [logger EXCEPT !.thread = "head"]
    /\ UNCHANGED << base_vars, fn_call, cam, ctgt, pad >>

(***************************************************************************)
(* The state of what is modelled on its own, before anything is called.    *)
(***************************************************************************)
\* the arguments of the function that is to be called are among calls; the
\* WebCam, the CameraTarget, the Gamepad and the TelemLogger are as their
\* constructors leave them
ExtInitWith(calls) ==
    /\ fn_call \in calls
    /\ cam = WebCam
    /\ ctgt = CameraTarget
    /\ pad = Gamepad
    /\ logger = TelemLogger

\* the state of everything but fn_call, cam, ctgt, pad and logger, for the
\* specifications that leave it alone
BaseInit ==
    /\ now = 0
    /\ TrackerInit({ Config(GainsPI, "rate", FALSE, FALSE, None, ErrorInputs, Periods) })
    /\ PidInit
    /\ HybInit
    /\ TelemInit({"Tracker"})
    /\ MafInit({2})

(***************************************************************************)
(* Specifications                                                          *)
(***************************************************************************)
InitWith(cfgs) ==
    /\ now = 0
    /\ TrackerInit(cfgs)
    /\ PidInit
    /\ HybInit
    /\ TelemInit({"Tracker"})
    /\ MafInit({2})
    /\ ExtInitWith({[op |-> "init"]})

Init == InitWith(Configs)

Next ==
    \/ RunCall
    \/ RunInit
    \/ LoopHead
    \/ ComputeError
    \/ InvokeCallback
    \/ Converge
    \/ UpdateController
    \/ Slew
    \/ FinishCycle
    \/ RegisterCallback

\* the Tracker with a caller that runs it and registers callbacks
Spec == Init /\ [][Next]_vars

InitPID == InitWith({ Config(g, "rate", FALSE, FALSE, None, ErrorInputs, Periods) :
                        g \in {GainsPI, GainsPID} })

\* a PIDController on its own
SpecPID == InitPID /\ [][PidUpdate \/ PidClamp \/ PidReset]_vars

\* the Tracker with a mount that clips to its rate limit
SpecSat == InitWith(ConfigsSat) /\ [][Next]_vars

\* the Tracker that stops when converged
SpecConv == InitWith(ConfigsConv) /\ [][Next]_vars

\* the Tracker that stops when converged, with a control thread that takes
\* its next step whenever it has one: compute_error(), the callback and
\* slew() return
SpecConvFair ==
    InitWith(ConfigsConv) /\ [][Next]_vars
       /\ WF_vars(RunInit \/ LoopHead \/ ComputeError \/ InvokeCallback \/ Converge
                     \/ UpdateController \/ Slew \/ FinishCycle)

\* the Tracker under every setting of stop_when_converged and stop_on_timer
SpecExit == InitWith(ConfigsExit) /\ [][Next]_vars

\* a HybridErrorSource on its own
SpecHybrid == InitPID /\ [][HybComputeError]_vars

InitTelem ==
    /\ now = 0
    /\ TrackerInit({ Config(GainsPI, "rate", FALSE, FALSE, None, ErrorInputs, Periods) })
    /\ PidInit
    /\ HybInit
    /\ TelemInit({"Tracker", "CameraTarget"})
    /\ MafInit({2})
    /\ ExtInitWith({[op |-> "init"]})

\* a telemetry source with the control thread and the telemetry thread
SpecTelem ==
    InitTelem
       /\ [][SetTelemAcquire \/ SetTelemClear \/ SetTelemFill
             \/ SetTelemRelease \/ GetTelemAcquire \/ GetTelemCopy
             \/ GetTelemReturn]_vars

InitFilter ==
    /\ now = 0
    /\ TrackerInit({ Config(GainsPI, "rate", FALSE, FALSE, None, ErrorInputs, Periods) })
    /\ PidInit
    /\ HybInit
    /\ TelemInit({"Tracker"})
    /\ MafInit({1, 2})
    /\ ExtInitWith({[op |-> "init"]})

\* a MovingAverageFilter on its own
SpecFilter == InitFilter /\ [][MafAdvance \/ MafReset]_vars

\* the state before a function, the WebCam, the CameraTarget or the Gamepad
\* is used on its own
InitExt(calls) == BaseInit /\ ExtInitWith(calls)

\* the two encoder transformations of the mount model
SpecEncoder == InitExt({[op |-> "init"]}) /\ [][EncoderRoundTrip]_vars

\* the two transformations of a MountModel
SpecModel == InitExt(WorldArgs) /\ [][WorldRoundTrip]_vars

\* calls of BlindErrorSource.compute_error
SpecBlind == InitExt(BlindArgs) /\ [][BlindComputeError]_vars

\* calls of OpticalErrorSource.compute_error
SpecOptical == InitExt(OpticalArgs) /\ [][OpticalComputeError]_vars

\* a TelemLogger, its worker thread and the thread that starts and stops it
SpecLogger ==
    InitExt({[op |-> "init"]})
       /\ [][LoggerStart \/ LoggerStop \/ WorkerHead \/ WorkerPost \/ WorkerSleep]_vars

\* a WebCam, its driver and the control thread
SpecCam == InitExt({[op |-> "init"]}) /\ [][CamFrameArrives \/ CamGetFrame]_vars

\* a CameraTarget and its callers
SpecTarget ==
    InitExt({[op |-> "init"]}) /\ [][TargetProcessSensorData \/ TargetGetPosition]_vars

\* a Gamepad, its two threads and a reader
SpecPad ==
    InitExt({[op |-> "init"]})
    /\ [][\/ PadInputEvent
          \/ PadCopySticks
          \/ PadAdd
          \/ PadStore
          \/ PadClip
          \/ PadStoreClip
          \/ PadSleep
          \/ PadGetIntegratorX
          \/ PadGetIntegratorY]_vars

\* the Tracker with another thread that sets the stop flag
SpecStop ==
    InitWith(ConfigsStop)
       /\ [][RunCall \/ RunInit \/ LoopHead \/ ComputeError
             \/ InvokeCallback \/ Converge \/ UpdateController \/ Slew
             \/ FinishCycle \/ RegisterCallback \/ SetStop]_vars

(***************************************************************************)
(* Claims about PIDController (checked under SpecPID)                      *)
(***************************************************************************)
\* the last call was an update() that measured a period over max_update_period
LateUpdate ==
    /\ pid_call.op = "update"
    /\ pid_call.period # None
    /\ pid_call.period[1] > pid_call.before.max_update_period

\* C7: an update() that measures a period greater than max_update_period
\* returns exactly the stored integrator and changes neither the integrator
\* nor the derivative filter.
C7_LateUpdateReturnsIntegrator ==
    LateUpdate =>
        /\ pid_call.ret = pid_call.before.integrator
        /\ pid.integrator = pid_call.before.integrator
        /\ pid.derivative_filter = pid_call.before.derivative_filter

\* C8: an update() that arrives more than max_update_period after the one
\* before leaves the integrator as it was, whatever the error.
C8_LateUpdateKeepsIntegrator ==
    LateUpdate => pid.integrator = pid_call.before.integrator

C8_Witness ==
    /\ LateUpdate
    /\ pid_call.arg # 0
    /\ pid.gains.integral > 0
    /\ pid.integrator # 0

\* C9: the first update(error) after construction or reset() returns
\* proportional_gain * error, leaves the integrator 0 and the derivative
\* filter empty, stores error as the previous error and the time of the call
\* as last_iteration_time.
C9_FirstUpdate ==
    (pid_call.op = "update" /\ pid_call.first) =>
        /\ pid_call.ret = pid.gains.proportional * pid_call.arg
        /\ pid.integrator = 0
        /\ pid.derivative_filter.delay_line = << >>
        /\ pid.derivative_filter.sample_periods = << >>
        /\ pid.error_prev = Some(pid_call.arg)
        /\ pid.last_iteration_time = Some(now)

C9_Witness ==
    /\ pid_call.op = "update"
    /\ pid_call.first
    /\ pid_call.arg # 0
    /\ pid_calls >= 3
    /\ now >= 2

\* C10: after clamp_integrator(rate) the integrator's magnitude is at most
\* |rate|, for either sign of rate, and an integrator already within
\* [-|rate|, |rate|] is unchanged.
C10_ClampIntegrator ==
    pid_call.op = "clamp" =>
        /\ Abs(pid.integrator) <= Abs(pid_call.arg)
        /\ Abs(pid_call.before.integrator) <= Abs(pid_call.arg)
              => pid.integrator = pid_call.before.integrator

C10_Witness ==
    /\ pid_call.op = "clamp"
    /\ pid_call.arg < 0
    /\ pid_call.before.integrator < pid_call.arg
    /\ pid.integrator = pid_call.arg


(***************************************************************************)
(* Claims about Tracker.run()                                              *)
(***************************************************************************)
\* the events of the cycle in progress (or just completed) with operation op
EventsOf(op) == {i \in 1..Len(cyc.events) : cyc.events[i].op = op}

\* the cycle in progress has been through _finish_control_cycle
CycleCompleted == EventsOf("count") # {}

\* run() has returned one of its reasons
Returned == pc = "idle" /\ result \in {"stop flag set", "converged", "timer expired"}

\* C1: run() returns 'converged' only if each of the last
\* converge_min_iterations cycles before the return had a valid error of
\* magnitude <= converge_max_error_mag (in the required state of the error
\* source), whatever the errors, NoSignal cycles and callback results.
C1_ConvergedOnlyAfterGoodCycles ==
    (pc = "idle" /\ result = "converged") => tails.all >= converge_min_iterations

\* C1 as amended: the last converge_min_iterations cycles that were not
\* skipped (NoSignal, callback returning true) all had such an error.
C1_ConvergedOnlyAfterGoodProcessedCycles ==
    (pc = "idle" /\ result = "converged") => tails.processed >= converge_min_iterations

C1_Witness ==
    /\ pc = "idle"
    /\ result = "converged"
    /\ tails.all < tails.processed
    /\ tails.processed = converge_min_iterations

\* the stop flag was set while run() was under way, at a place other than
\* the loop head: a cycle, or the lines before the loop
StopSetInCycle ==
    /\ stop_req # None
    /\ stop_req[1].pc \in {"compute", "callback", "converge", "update", "slew", "finish"}

\* after the stop flag was set, run() has started no further cycle, and if
\* it has returned, it returned 'stop flag set' at the first loop head after
\* the flag was set, the cycle then in progress completed
StopHonoured ==
    /\ ~stop_req[1].missed
    /\ Returned =>
          /\ result = "stop flag set"
          /\ num_iterations = stop_req[1].n + (IF StopSetInCycle THEN 1 ELSE 0)

NoSignalCycle == cyc.events # << >> /\ cyc.events[1].op = "no_signal"

\* C3: in a cycle where compute_error() raises NoSignal the error is the
\* all-absent PointingError, no controller is updated, mount.slew is not
\* called, the convergence counter is unchanged, telemetry is published
\* once, num_iterations increases by one and the loop goes on.
C3_NoSignalCycle ==
    NoSignalCycle =>
        /\ error = NoSignalError
        /\ controllers = cyc.head.controllers
        /\ controller_outputs = cyc.head.controller_outputs
        /\ slew_rate = cyc.head.slew_rate
        /\ low_error_iterations = cyc.head.low_error_iterations
        /\ \A op \in {"converge", "update", "slew", "raise"} : EventsOf(op) = {}
        /\ pc \in {"callback", "finish", "top", "idle"}
        /\ pc \in {"callback", "finish"} =>
              /\ EventsOf("telem") = {}
              /\ num_iterations = cyc.head.num_iterations
        /\ pc \in {"top", "idle"} =>
              /\ Cardinality(EventsOf("telem")) = 1
              /\ num_iterations = cyc.head.num_iterations + 1
              /\ telem_chans = TelemChannels(cyc.head.num_iterations, slew_rate,
                                             NoSignalError, controllers,
                                             controller_outputs)
              /\ pc = "idle" => Returned

C3_Witness ==
    /\ NoSignalCycle
    /\ pc = "top"
    /\ ~callback
    /\ \E a \in AxisSet : controllers[a].integrator # 0
    /\ \E a \in AxisSet : slew_rate[a] # 0

\* the axis on which mount.slew() raised the axis limit exception in the
\* cycle in progress
RaisedOn(a) == \E i \in EventsOf("raise") : cyc.events[i].axis = a

\* C4: when mount.slew(axis, rate) raises the axis limit exception the
\* Tracker resets that axis's integrator to zero and the cycle goes on;
\* run() does not terminate.
C4_AxisLimitHandled ==
    \A a \in AxisSet : RaisedOn(a) =>
        /\ controllers[a].integrator = 0
        /\ pc # "idle"

\* C5: for each axis, if mount.slew returned limit_exceeded = true then to
\* the end of the cycle |integrator| <= |slew_rate[axis]|; if it returned
\* false the integrator keeps the value update() produced.
C5_ClampOnLimit ==
    \A a \in AxisSet :
        /\ cyc.limit[a] = Some(TRUE) =>
              Abs(controllers[a].integrator) <= Abs(slew_rate[a])
        /\ cyc.limit[a] = Some(FALSE) =>
              controllers[a].integrator = cyc.updated[a][1]

C5_Witness ==
    /\ pc = "top"
    /\ \E a, b \in AxisSet :
          /\ cyc.limit[a] = Some(TRUE)
          /\ Abs(cyc.updated[a][1]) > Abs(slew_rate[a])
          /\ cyc.limit[b] = Some(FALSE)
          /\ controllers[b].integrator # 0

\* C6: with a mount that clips every command to +/-L and reports
\* limit_exceeded exactly when it clips, and gains P > 0, I >= 0, D = 0:
\* once a cycle has saturated and clamped the integrator, its magnitude is
\* <= L at the end of every later cycle.
C6_IntegratorWithinLimit ==
    pc \in {"finish", "top"} =>
        \A a \in saturated : Abs(controllers[a].integrator) <= MountRateLimit

C6_Witness ==
    /\ pc = "top"
    /\ CycleCompleted
    /\ \E a \in saturated :
          /\ cyc.updated[a] # None
          /\ Abs(cyc.updated[a][1]) > MountRateLimit
          /\ Abs(cyc.head.controllers[a].integrator) = MountRateLimit

\* the cycle in progress (or just completed) is one where the registered
\* callback returned true
CallbackTrueCycle ==
    \E i \in EventsOf("callback") : cyc.events[i].axis = "true"

\* C11: in a cycle where the registered callback returns true the rest of
\* the cycle is skipped: no controller state, controller output, slew rate
\* or convergence counter changes and mount.slew is not called; telemetry
\* is published and num_iterations goes up by one.  With no callback
\* registered a cycle is skipped only for an error without signal.
C11_CallbackSkipsCycle ==
    /\ CallbackTrueCycle =>
          /\ controllers = cyc.head.controllers
          /\ controller_outputs = cyc.head.controller_outputs
          /\ slew_rate = cyc.head.slew_rate
          /\ low_error_iterations = cyc.head.low_error_iterations
          /\ \A op \in {"converge", "update", "slew", "raise"} : EventsOf(op) = {}
          /\ pc \in {"finish", "top", "idle"}
          /\ pc = "finish" =>
                /\ EventsOf("telem") = {}
                /\ num_iterations = cyc.head.num_iterations
          /\ pc \in {"top", "idle"} =>
                /\ Cardinality(EventsOf("telem")) = 1
                /\ num_iterations = cyc.head.num_iterations + 1
                /\ telem_chans = TelemChannels(cyc.head.num_iterations, slew_rate,
                                               error, controllers, controller_outputs)
    /\ (EventsOf("callback") = {} /\ EventsOf("skip") # {}) => ~AnyValid(error)

C11_Witness ==
    /\ CallbackTrueCycle
    /\ pc = "top"
    /\ AnyValid(error)
    /\ error.magnitude[1] <= converge_max_error_mag
    /\ \E a \in AxisSet : controllers[a].error_prev # None /\ error[a] # controllers[a].error_prev
    /\ low_error_iterations > 0

\* the place of an event in the order of a cycle
Rank(op) ==
    CASE op \in {"compute_error", "no_signal"} -> 1
      [] op = "callback" -> 2
      [] op \in {"skip", "converge"} -> 3
      [] op = "update" -> 4
      [] op \in {"slew", "raise"} -> 5
      [] op = "telem" -> 6
      [] op = "count" -> 7

\* the events of the cycle in progress with operation op for axis a
AxisEvents(op, a) == {i \in EventsOf(op) : cyc.events[i].axis = a}

ConvergedHolds ==
    config.stop_when_converged /\ low_error_iterations >= converge_min_iterations

TimerHolds ==
    config.stop_on_timer /\ now - start_time > config.max_run_time

\* C13: run() returns only 'stop flag set', 'converged' or 'timer expired',
\* only at the top of a loop iteration; when several exit conditions hold
\* the stop flag comes first, then convergence, then the timer; with
\* stop_when_converged and stop_on_timer both false run() returns only by
\* the stop flag.
C13_ExitPrecedence ==
    (pc = "idle" /\ result \notin {"none", "AxisLimitException"}) =>
        /\ result \in {"stop flag set", "converged", "timer expired"}
        /\ cyc.events = << >> \/ cyc.events[Len(cyc.events)].op = "count"
        /\ result = "stop flag set" <=> stop
        /\ result = "converged" <=> (~stop /\ ConvergedHolds)
        /\ result = "timer expired" <=> (~stop /\ ~ConvergedHolds /\ TimerHolds)
        /\ (~config.stop_when_converged /\ ~config.stop_on_timer) => result = "stop flag set"

C13_Witness ==
    /\ pc = "idle"
    /\ result = "converged"
    /\ TimerHolds
    /\ runs = MaxRuns
    /\ num_iterations = MaxIter

\* run() has just executed the lines before its loop: the control thread is
\* at the loop head for the first time in this invocation
RunStarted == pc = "top" /\ cyc.events = << >>

\* C14: every invocation of run(), a re-entry with leftover state included,
\* starts with stop = False, the convergence counter 0 and each axis's
\* controller in reset state (integrator 0, no previous error, no time of
\* last update, empty derivative filter); num_iterations is not reset.
C14_RunStartsReset ==
    RunStarted =>
        /\ ~stop
        /\ low_error_iterations = 0
        /\ \A a \in AxisSet :
              /\ controllers[a].integrator = 0
              /\ controllers[a].error_prev = None
              /\ controllers[a].last_iteration_time = None
              /\ controllers[a].derivative_filter.delay_line = << >>
              /\ controllers[a].derivative_filter.sample_periods = << >>
        /\ num_iterations = cyc.head.num_iterations
        /\ start_time = now

\* a re-entry: the run() before left the stop flag set, a count of low
\* errors, an integrator and a derivative filter that are not empty
C14_Witness ==
    /\ RunStarted
    /\ runs = 2
    /\ num_iterations > 0
    /\ cyc.head.stop
    /\ cyc.head.low_error_iterations > 0
    /\ \E a \in AxisSet :
          /\ cyc.head.controllers[a].integrator # 0
          /\ cyc.head.controllers[a].error_prev # None
          /\ cyc.head.controllers[a].derivative_filter.delay_line # << >>

(***************************************************************************)
(* Claims about HybridErrorSource (checked under SpecHybrid)               *)
(***************************************************************************)
\* the last call of compute_error() was one where the optical source
\* raised NoSignal, or one where it returned an error
OpticalNoSignal == hyb_call.op = "compute_error" /\ hyb_call.found = None

OpticalSignal == hyb_call.op = "compute_error" /\ hyb_call.found # None

\* C15: the source starts in state blind; when the optical source raises
\* NoSignal, in blind the blind error is returned and the state stays
\* blind; in optical the state becomes blind and the blind error is
\* returned if consec_no_detect_frames >= max_optical_no_signal_frames,
\* otherwise NoSignal is raised and the state stays optical.  So
\* max_optical_no_signal_frames calls without signal in a row, from state
\* optical, end in blind.
C15_HybridNoSignal ==
    /\ hyb_call.op = "init" => hyb.state = "blind"
    /\ OpticalNoSignal =>
          LET frames == hyb_call.before.optical.consec_no_detect_frames + 1
          IN  /\ hyb.optical.consec_no_detect_frames = frames
              /\ hyb_call.before.state = "blind" =>
                    /\ hyb_call.ret = ErrorFrom("blind", hyb_call.blind_error)
                    /\ hyb.state = "blind"
              /\ (hyb_call.before.state = "optical"
                    /\ frames >= max_optical_no_signal_frames) =>
                    /\ hyb_call.ret = ErrorFrom("blind", hyb_call.blind_error)
                    /\ hyb.state = "blind"
              /\ (hyb_call.before.state = "optical"
                    /\ frames < max_optical_no_signal_frames) =>
                    /\ hyb_call.ret = RaiseNoSignal
                    /\ hyb.state = "optical"
    /\ (hyb_call.nosig_run > 0 /\ hyb_call.nosig_run >= max_optical_no_signal_frames) =>
          hyb.state = "blind"

C15_Witness ==
    /\ OpticalNoSignal
    /\ hyb_call.nosig_run = max_optical_no_signal_frames
    /\ hyb_call.before.state = "optical"
    /\ hyb.state = "blind"
    /\ max_optical_no_signal_frames > 1

\* C16: when the optical source returns an error: from blind with
\* divergence < max_divergence the state becomes optical, from optical with
\* divergence > max_divergence it becomes blind, otherwise it is unchanged;
\* the error returned is the optical one if and only if the state after
\* the transition is optical, else the blind one.
C16_HybridSignal ==
    OpticalSignal =>
        LET before == hyb_call.before.state
            d == hyb_call.divergence
        IN  /\ (before = "blind" /\ d < max_divergence) => hyb.state = "optical"
            /\ (before = "optical" /\ d > max_divergence) => hyb.state = "blind"
            /\ ~(before = "blind" /\ d < max_divergence)
                  /\ ~(before = "optical" /\ d > max_divergence) => hyb.state = before
            /\ hyb.state = "optical" <=>
                  hyb_call.ret = ErrorFrom("optical", hyb_call.found[1])
            /\ hyb.state = "blind" <=>
                  hyb_call.ret = ErrorFrom("blind", hyb_call.blind_error)
            /\ hyb.state \in {"blind", "optical"}

C16_Witness ==
    /\ OpticalSignal
    /\ hyb_call.before.state = "optical"
    /\ hyb_call.divergence = max_divergence
    /\ hyb.state = "optical"
    /\ hyb_call.found[1] # hyb_call.blind_error

\* C17: compute_error() raises NoSignal only in calls where neither the
\* blind nor the optical source produced an error; a call in which the
\* blind error was computed (every call: the blind source never raises
\* NoSignal) returns an error.
C17_NoSignalOnlyIfBothFail ==
    hyb_call.op = "compute_error" => hyb_call.ret.kind = "error"

\* C17 as amended: compute_error() raises NoSignal exactly in the calls
\* where the optical source raised it, the state is optical and
\* consec_no_detect_frames is still below max_optical_no_signal_frames; the
\* blind error computed in such a call is dropped.  Every other call
\* returns an error.
C17_NoSignalWhileOptical ==
    hyb_call.op = "compute_error" =>
        (hyb_call.ret.kind = "NoSignal" <=>
            /\ hyb_call.found = None
            /\ hyb_call.before.state = "optical"
            /\ hyb_call.before.optical.consec_no_detect_frames + 1
                  < max_optical_no_signal_frames)

C17_Witness ==
    /\ hyb_call.op = "compute_error"
    /\ hyb_call.ret.kind = "NoSignal"
    /\ hyb.state = "optical"
    /\ hyb.optical.consec_no_detect_frames = 1

(***************************************************************************)
(* Claims about the telemetry dict (checked under SpecTelem)               *)
(***************************************************************************)
\* the channels of the dict one whole call of _set_telem_channels builds,
\* for a source with or without a measurement at that call
ChannelSet(source, valid) ==
    IF source = "Tracker"
    THEN {Channel("num_iterations", "-")}
         \cup {Channel(n, a) : n \in {"rate", "controller_int", "controller_out"},
                               a \in AxisSet}
         \cup (IF valid THEN {Channel("error", a) : a \in AxisSet} ELSE {})
    ELSE IF valid THEN CameraChannels ELSE {}

\* d is the whole dict of one call of _set_telem_channels, one of the
\* first n calls
SnapshotOfOneCall(d, n) ==
    \E call \in 1..n, valid \in BOOLEAN :
        /\ DOMAIN d = ChannelSet(telem_source, valid)
        /\ \A k \in DOMAIN d : d[k] = [call |-> call, valid |-> valid]

\* C18: a get_telem_channels() call of the telemetry thread, interleaved
\* in any way with _set_telem_channels of the control thread, returns a
\* copy of the whole channel set written by exactly one _set_telem_channels
\* call, never a partly filled dict or a mix of two cycles, and no later
\* cycle changes the dict returned.
C18_TelemSnapshot ==
    /\ \A i \in 1..Len(returned) :
          /\ SnapshotOfOneCall(returned[i].value, returned[i].calls)
          /\ heap[returned[i].ref] = returned[i].value
          /\ returned[i].ref # chans_ref
    /\ rd.pc = "copied" => SnapshotOfOneCall(heap[rd.chans[1]], wr.calls)

C18_Witness ==
    /\ Len(returned) = 2
    /\ returned[1].value # returned[2].value
    /\ returned[1].value # EmptyDict
    /\ returned[2].calls > returned[1].calls
    /\ wr.pc = "fill"
    /\ wr.key > 2
    /\ DOMAIN heap[chans_ref] # DOMAIN returned[2].value

\* the dicts Tracker.get_telem_channels() has returned
TrackerSnapshots ==
    IF telem_source = "Tracker" THEN {returned[i].value : i \in 1..Len(returned)} ELSE {}

\* C19: every snapshot Tracker.get_telem_channels() returns contains
\* num_iterations and, for each axis, rate_<axis>, error_<axis>,
\* controller_int_<axis> and controller_out_<axis>; also the snapshot
\* published at construction and those of cycles with no signal.
C19_AllChannels ==
    \A d \in TrackerSnapshots :
        {TrackerChannels[i] : i \in 1..Len(TrackerChannels)} \subseteq DOMAIN d

\* C19 as amended: every snapshot contains num_iterations and, for each
\* axis, rate_<axis>, controller_int_<axis> and controller_out_<axis>; it
\* contains error_<axis> exactly when the error of that call had a value
\* for the axis, so not in the snapshot published at construction nor in
\* those of cycles with no signal.
C19_ChannelsButError ==
    \A d \in TrackerSnapshots :
        /\ Channel("num_iterations", "-") \in DOMAIN d
        /\ \A a \in AxisSet :
              /\ {Channel("rate", a), Channel("controller_int", a),
                  Channel("controller_out", a)} \subseteq DOMAIN d
              /\ Channel("error", a) \in DOMAIN d <=> d[Channel("num_iterations", "-")].valid
        /\ d[Channel("num_iterations", "-")].call = 1 =>
              \A a \in AxisSet : Channel("error", a) \notin DOMAIN d

C19_Witness ==
    /\ telem_source = "Tracker"
    /\ \E i, j \in 1..Len(returned) :
          /\ Channel("error", "a0") \in DOMAIN returned[i].value
          /\ Channel("error", "a0") \notin DOMAIN returned[j].value
          /\ returned[j].value[Channel("num_iterations", "-")].call > 1

(***************************************************************************)
(* Claims about MovingAverageFilter (checked under SpecFilter)             *)
(***************************************************************************)
\* C20: after every advance(), for any sequence of (value, period) inputs
\* with periods >= 0, the sum of the retained sample periods is at most
\* max_depth + the period of the newest sample, and no retained sample has
\* a cumulative age (the sum of the periods from the newest sample up to
\* and including it) greater than max_depth.
C20_FilterWindow ==
    maf_call.op = "advance" =>
        /\ SeqSum(maf.sample_periods) <= maf.max_depth + maf_call.sample_period
        /\ \A i \in 1..Len(maf.sample_periods) :
              SeqSum(SubSeq(maf.sample_periods, 1, i)) <= maf.max_depth
        /\ Len(maf.delay_line) = Len(maf.sample_periods)

\* an advance() that drops old samples and keeps the new one and another
C20_Witness ==
    /\ maf_call.op = "advance"
    /\ Len(maf.sample_periods) = 2
    /\ Len(maf_call.before.sample_periods) = 3
    /\ SeqSum(maf.sample_periods) = maf.max_depth
    /\ maf_call.sample_period > 0

\* the samples left when the oldest samples are popped for as long as the
\* sum of the periods exceeds depth: << values, periods >>, newest first
RECURSIVE PopWhileOver(_, _, _)
PopWhileOver(values, periods, depth) ==
    IF periods # << >> /\ SeqSum(periods) > depth
    THEN PopWhileOver(SubSeq(values, 1, Len(values) - 1),
                      SubSeq(periods, 1, Len(periods) - 1), depth)
    ELSE << values, periods >>

\* C21: advance(value, period) returns the arithmetic mean of the values
\* retained after pushing the new sample at the front and popping the
\* oldest samples while the cumulative period exceeds max_depth, and 0 when
\* nothing is retained (a sample whose own period exceeds max_depth empties
\* the filter); after reset() one advance(v, p) with p <= max_depth returns
\* exactly v.
C21_FilterMean ==
    maf_call.op = "advance" =>
        LET kept == PopWhileOver(<< maf_call.value >> \o maf_call.before.delay_line,
                                 << maf_call.sample_period >> \o maf_call.before.sample_periods,
                                 maf.max_depth)
        IN  /\ maf.delay_line = kept[1]
            /\ maf.sample_periods = kept[2]
            /\ kept[1] # << >> => maf_call.ret * Len(kept[1]) = SeqSum(kept[1])
            /\ kept[1] = << >> => maf_call.ret = 0
            /\ maf_call.sample_period > maf.max_depth => maf.delay_line = << >>
            /\ (maf_call.before.delay_line = << >>
                  /\ maf_call.sample_period <= maf.max_depth) => maf_call.ret = maf_call.value

\* the mean of three retained values that are not all the same, after an
\* advance() that dropped the oldest sample
C21_Witness ==
    /\ maf_call.op = "advance"
    /\ Len(maf.delay_line) = 3
    /\ maf_call.ret \notin {0, 60}
    /\ Len(maf_call.before.delay_line) > 2

(***************************************************************************)
(* Claims about the mount model                                            *)
(***************************************************************************)
\* C22: for every sky coordinate s at least 1 degree away from the pole,
\* every meridian side m and every time t,
\* mount_to_world(world_to_mount(s, m, t), t) equals s (within 1
\* arcsecond), for any ModelParameters.
C22_WorldRoundTrip ==
    fn_call.op = "world_to_mount" =>
        /\ fn_call.back = fn_call.sky_coord
        /\ \A i \in 1..2 : fn_call.encoders[i] >= 0 /\ fn_call.encoders[i] < 360

\* a round trip through the pole of the mount, with encoder offsets
C22_Witness ==
    /\ fn_call.op = "world_to_mount"
    /\ fn_call.model_params = ModelParameters(-170, 100, 90, 90)
    /\ fn_call.sky_coord = SkyCoord(0, 0)
    /\ fn_call.sidereal_time = 0
    /\ fn_call.meridian_side = "WEST"
    /\ Longitude(fn_call.encoders[2] - 100) = 180

\* C23: for every mount-frame coordinate (lon, lat) with |lat| < 90,
\* spherical_to_encoder yields two distinct encoder pairs, one per
\* MeridianSide, each with both encoders in [0, 360); encoder_to_spherical
\* maps each pair back to the same (lon, lat) modulo 360, taking its
\* 'axis-1 encoder < 180' branch exactly for the EAST pair.
C23_EncoderRoundTrip ==
    fn_call.op = "spherical_to_encoder" =>
        LET other == spherical_to_encoder(UnitSpherical(fn_call.lon, fn_call.lat),
                                          IF fn_call.meridian_side = "EAST" THEN "WEST"
                                          ELSE "EAST")
        IN  /\ fn_call.encoders # other
            /\ \A i \in 1..2 : fn_call.encoders[i] >= 0 /\ fn_call.encoders[i] < 360
            /\ (fn_call.back.lon - fn_call.lon) % 360 = 0
            /\ fn_call.back.lat = fn_call.lat
            /\ fn_call.east_branch <=> fn_call.meridian_side = "EAST"

C23_Witness ==
    /\ fn_call.op = "spherical_to_encoder"
    /\ fn_call.meridian_side = "WEST"
    /\ fn_call.lon = 359
    /\ fn_call.lat = -89
    /\ fn_call.encoders = << 271, 359 >>


\* C24: for the longitude-like axis, compute_error returns the shortest-arc
\* difference wrap_error(mount_position - target_position): always for az,
\* and for ra with the mount on the preferred side of the meridian unless
\* that error would take the physical ra axis outside [0, 360], in which
\* case it is that difference shifted by 360.
C24_BlindCall == fn_call.op = "compute_error"

C24_OnPreferredSide ==
    /\ C24_BlindCall
    /\ fn_call.axes[1] = "ra"
    /\ fn_call.meridian_side = (IF fn_call.mount_position.pdec < 180 THEN "east" ELSE "west")

C24_Shortest(axis) ==
    wrap_error(fn_call.mount_position[axis] - fn_call.target_position[axis])

C24_ShortestArcUnlessLimit ==
    /\ (C24_BlindCall /\ fn_call.axes[1] = "az") => fn_call.error.az = C24_Shortest("az")
    /\ C24_OnPreferredSide =>
          LET w == C24_Shortest("ra")
              pra == fn_call.mount_position.pra
          IN  /\ (0 <= pra - w /\ pra - w <= 360) => fn_call.error.ra = w
              /\ pra - w > 360 => fn_call.error.ra = w + 360
              /\ pra - w < 0 => fn_call.error.ra = w - 360

\* C24 as stated: on the longitude-like axis the error is the shortest-arc
\* difference for all mount and target positions.
C24_ShortestArc ==
    /\ (C24_BlindCall /\ fn_call.axes[1] = "az") => fn_call.error.az = C24_Shortest("az")
    /\ C24_OnPreferredSide => fn_call.error.ra = C24_Shortest("ra")

\* mount at ra 359, target at ra 1, the physical axis in mid range: -2
C24_Witness ==
    /\ C24_OnPreferredSide
    /\ fn_call.mount_position.ra = 359
    /\ fn_call.target_position.ra = 1
    /\ fn_call.mount_position.pra = 180
    /\ fn_call.error.ra = -2

\* C25: the az and alt components of the error lie in (-180, +180]; the ra
\* component is a wrapped error or a wrapped error shifted by 360, in
\* (-540, +540); the dec component is a difference that is not wrapped, in
\* [-360, +360].
C25_Wrapped(e) == -180 < e /\ e <= 180

C25_ErrorRanges ==
    C24_BlindCall =>
        IF fn_call.axes[1] = "az"
        THEN C25_Wrapped(fn_call.error.az) /\ C25_Wrapped(fn_call.error.alt)
        ELSE /\ \E k \in {-360, 0, 360} : C25_Wrapped(fn_call.error.ra - k)
             /\ -360 <= fn_call.error.dec /\ fn_call.error.dec <= 360

\* C25 as stated: every axis component lies in (-180, +180].
C25_AllWrapped ==
    C24_BlindCall =>
        \A axis \in DOMAIN fn_call.error : C25_Wrapped(fn_call.error[axis])

\* an equatorial mount on the side that is not preferred: the dec error is
\* the way through the pole
C25_Witness ==
    /\ C24_BlindCall
    /\ fn_call.axes[1] = "ra"
    /\ fn_call.meridian_side = "west"
    /\ fn_call.mount_position.pdec < 180
    /\ fn_call.error.dec = -240

\* C26: the ra error satisfies 0 <= pra - error <= 360; it is the wrapped
\* error shifted by exactly 360 when the wrapped error would take the axis
\* outside [0, 360], and the wrapped error itself otherwise.
C26_RaLimit ==
    (C24_BlindCall /\ fn_call.axes[1] = "ra") =>
        LET w == ra_wrapped(fn_call.meridian_side, fn_call.mount_position,
                            fn_call.target_position)
            pra == fn_call.mount_position.pra
            e == fn_call.error.ra
        IN  /\ 0 <= pra - e /\ pra - e <= 360
            /\ pra - w > 360 => e = w + 360
            /\ pra - w < 0 => e = w - 360
            /\ (0 <= pra - w /\ pra - w <= 360) => e = w

\* the axis near its lower limit and the error shifted by -360
C26_Witness ==
    /\ C24_BlindCall
    /\ fn_call.axes[1] = "ra"
    /\ fn_call.mount_position.pra = 10
    /\ fn_call.error.ra = 179 - 360

\* C27: after a call of the optical source that succeeded
\* consec_detect_frames has increased by one and consec_no_detect_frames
\* is 0; after one that raised NoSignal consec_no_detect_frames has
\* increased by one and consec_detect_frames is 0; at most one of the two
\* counters is non-zero, and it is the length of the current run of
\* identical outcomes.
C27_OpticalCounters ==
    LET o == hyb.optical
        b == hyb_call.before.optical
    IN  /\ hyb_call.op = "compute_error" =>
              IF hyb_call.found # None
              THEN /\ o.consec_detect_frames = b.consec_detect_frames + 1
                   /\ o.consec_no_detect_frames = 0
                   /\ o.consec_detect_frames = hyb_call.run.length
              ELSE /\ o.consec_no_detect_frames = b.consec_no_detect_frames + 1
                   /\ o.consec_detect_frames = 0
                   /\ o.consec_no_detect_frames = hyb_call.run.length
        /\ o.consec_detect_frames = 0 \/ o.consec_no_detect_frames = 0

\* the last of the calls is the second failed detection in a row
C27_Witness ==
    /\ hyb_call.op = "compute_error"
    /\ hyb_call.found = None
    /\ hyb_call.before.optical.consec_no_detect_frames = 1
    /\ hyb.optical.consec_no_detect_frames = 2
    /\ hyb_calls = MaxCalls
    /\ hyb_call.run = [detected |-> FALSE, length |-> 2]

\* C28: every call of get_frame() returns; it returns the most recent frame
\* that has arrived, leaves no older frame behind, never returns a frame it
\* has returned before, and returns None only when no frame has arrived
\* since the frame it returned last.
C28_GetFrameNewest ==
    cam.call.op = "get_frame" =>
        /\ cam.call.raised = "none"
        /\ cam.call.ret # None =>
              /\ cam.call.ret[1] = cam.call.newest
              /\ \A i \in 1..(Len(cam.returned) - 1) : cam.returned[i] # cam.call.ret[1]
        /\ cam.call.ret = None =>
              /\ cam.returned # << >>
              /\ cam.returned[Len(cam.returned)] = cam.call.newest
        /\ cam.arrived = cam.call.newest => cam.queue = << >>

\* get_frame() with no timeout returns the newest frame and drops the rest
C28_NewestWithoutTimeout ==
    (cam.call.op = "get_frame" /\ cam.call.timeout = "inf") =>
        /\ cam.call.raised = "none"
        /\ cam.call.ret = Some(cam.call.newest)
        /\ \A i \in 1..(Len(cam.returned) - 1) : cam.returned[i] < cam.call.newest
        /\ \A i \in 1..Len(cam.queue) : cam.queue[i] > cam.call.newest

\* C29: get_position() raises IndeterminatePosition exactly when no
\* process_sensor_data() has run yet or the most recent one obtained no
\* frame or detected no keypoint, and otherwise returns the position
\* computed by the most recent process_sensor_data().
C29_NoStalePosition ==
    ctgt.call.op = "get_position" =>
        /\ ctgt.call.raised = "IndeterminatePosition" <=> ctgt.outcome # "keypoints"
        /\ ctgt.call.raised = "none" => ctgt.call.ret = Some(ctgt.sensor_calls)

\* the same, for the calls of process_sensor_data() that came to their end
C29_AfterCompletedCall ==
    (ctgt.call.op = "get_position" /\ ctgt.outcome # "raise") =>
        /\ ctgt.call.raised = "IndeterminatePosition" <=> ctgt.outcome # "keypoints"
        /\ ctgt.call.raised = "none" => ctgt.call.ret = Some(ctgt.sensor_calls)

\* C30: every value of the integrators that another thread can observe,
\* through get_integrator() or int_x / int_y, has absolute value <=
\* int_limit.
C30_WithinLimit ==
    /\ Abs(pad.int_x) <= int_limit
    /\ Abs(pad.int_y) <= int_limit
    /\ pad.reader.ret # None =>
          /\ Abs(pad.reader.ret[1][1]) <= int_limit
          /\ Abs(pad.reader.ret[1][2]) <= int_limit

\* the integrators are within the limit whenever the integrator thread
\* sleeps, unless a loaded sum or clipped value is yet to be stored
C30_WithinLimitAsleep ==
    pad.integ.pc = "sleep" =>
        Abs(pad.int_x) <= int_limit /\ Abs(pad.int_y) <= int_limit

(***************************************************************************)
(* Claims about timely updates, retries and keypoints                      *)
(***************************************************************************)
\* an update() that measured a period no greater than max_update_period
TimelyUpdate ==
    /\ pid_call.op = "update"
    /\ pid_call.period # None
    /\ pid_call.period[1] <= pid_call.before.max_update_period

\* C31: an update(error) whose measured period dt is known and at most
\* max_update_period adds I_gain * error * dt to the integrator, returns
\* P_gain * error + the updated integrator + D_gain times the mean of the
\* samples (error - previous_error) / dt that the last derivative_filter_depth
\* seconds retain, and stores error as the previous error.
C31_TimelyUpdate ==
    TimelyUpdate =>
        LET b == pid_call.before
            e == pid_call.arg
            dt == pid_call.period[1]
            diff == (e - b.error_prev[1]) \div dt
            kept == PopWhileOver(<< diff >> \o b.derivative_filter.delay_line,
                                 << dt >> \o b.derivative_filter.sample_periods,
                                 b.gains.derivative_filter_depth)
            mean == IF kept[1] = << >> THEN 0
                    ELSE SeqSum(kept[1]) \div Len(kept[1])
        IN  /\ b.error_prev # None
            /\ pid.integrator = b.integrator + b.gains.integral * e * dt
            /\ pid.derivative_filter.delay_line = kept[1]
            /\ pid_call.ret = b.gains.proportional * e + pid.integrator
                                 + b.gains.derivative * mean
            /\ pid.error_prev = Some(e)

\* a timely update with all three terms at work: a nonzero
\* error, a derivative window that dropped its oldest sample and a nonzero
\* derivative term
C31_Witness ==
    /\ TimelyUpdate
    /\ pid.gains.derivative > 0
    /\ pid_call.arg # 0
    /\ pid.integrator # pid_call.before.integrator
    /\ Len(pid_call.before.derivative_filter.delay_line) = 2
    /\ Len(pid.derivative_filter.delay_line) = 2
    /\ pid_call.ret # pid.gains.proportional * pid_call.arg + pid.integrator

\* C32: compute_error(retries = r) takes at most r + 1 frames: it returns
\* at the first frame that has a keypoint, it raises NoSignalException after
\* exactly r + 1 frames when none of them has one, and the two counters
\* change by one call's worth, however many frames were retried.
C32_Retries ==
    fn_call.op = "compute_error" =>
        LET r == fn_call.retries
            n == fn_call.examined
            empty(i) == fn_call.frames[i] = << >>
        IN  /\ n \in 1..(r + 1)
            /\ \A i \in 1..(n - 1) : empty(i)
            /\ fn_call.raised <=> \A i \in 1..(r + 1) : empty(i)
            /\ fn_call.raised => n = r + 1
            /\ ~fn_call.raised => ~empty(n) /\ fn_call.error # None
            /\ fn_call.raised =>
                  /\ fn_call.optical.consec_detect_frames = 0
                  /\ fn_call.optical.consec_no_detect_frames
                        = fn_call.before.consec_no_detect_frames + 1
            /\ ~fn_call.raised =>
                  /\ fn_call.optical.consec_no_detect_frames = 0
                  /\ fn_call.optical.consec_detect_frames
                        = fn_call.before.consec_detect_frames + 1

\* two retried frames without a keypoint and then a third with one, in a
\* call that began with no-detect frames counted
C32_Witness ==
    /\ fn_call.op = "compute_error"
    /\ fn_call.retries = 2
    /\ fn_call.examined = 3
    /\ ~fn_call.raised
    /\ fn_call.before.consec_no_detect_frames = 2
    /\ fn_call.optical.consec_detect_frames = 1

\* the call that raises after its retries
C32_WitnessRaise ==
    /\ fn_call.op = "compute_error"
    /\ fn_call.retries = 2
    /\ fn_call.examined = 3
    /\ fn_call.raised
    /\ fn_call.optical.consec_no_detect_frames = 3

\* the keypoints of the frame that compute_error() returned at
C33_Keypoints == fn_call.frames[fn_call.examined]

\* C33: the keypoint that the error is computed from is one that no other
\* keypoint of the frame is nearer to the frame centre than, in whatever
\* order the detector returned the keypoints.
C33_TargetNearest ==
    (fn_call.op = "compute_error" /\ ~fn_call.raised) =>
        \A i \in 1..Len(C33_Keypoints) :
            LET e == first_keypoint_error(<< C33_Keypoints[i] >>)
                t == fn_call.error[1]
            IN  t.x * t.x + t.y * t.y <= e.x * e.x + e.y * e.y

\* the keypoint that CameraTarget picks is nearest to the centre: the same
\* for either order of two keypoints at different distances
C33_NearestInCameraTarget ==
    (fn_call.op = "compute_error" /\ ~fn_call.raised) =>
        LET t == keypoint_nearest_center_frame(C33_Keypoints, None)[1]
            e(k) == first_keypoint_error(<< k >>)
        IN  \A i \in 1..Len(C33_Keypoints) :
               e(t).x * e(t).x + e(t).y * e(t).y
                 <= e(C33_Keypoints[i]).x * e(C33_Keypoints[i]).x
                      + e(C33_Keypoints[i]).y * e(C33_Keypoints[i]).y

(***************************************************************************)
(* Claims about the Tracker that converges (checked under SpecConvFair)    *)
(***************************************************************************)
\* what C34 assumes of the cycles from the k-th on (counted from 0): stop
\* is not set, the timer does not end the run, no cycle is skipped and the
\* error of every cycle is valid, of low magnitude and from the required
\* state of the error source
C34_Assumed(k) ==
    /\ ~stop
    /\ result # "timer expired"
    /\ num_iterations >= k =>
          /\ ~SkippedCycle
          /\ pc = "callback" => GoodCycle

\* C34: with stop_when_converged set, if stop is never set, the timer does
\* not expire first, and from some cycle on no cycle is skipped and every
\* cycle has a valid error of low magnitude (from the required state of the
\* error source), then run() returns 'converged'; and at the head of the
\* loop that follows the converge_min_iterations-th such cycle in a row the
\* exit taken is 'converged'.
C34_Converges ==
    /\ [](( /\ pc = "top"
            /\ config.stop_when_converged
            /\ ~stop
            /\ tails.processed >= converge_min_iterations )
              => ExitReason = "converged")
    /\ \A k \in {0, 1} :
          []C34_Assumed(k)
             => ((pc = "called" /\ runs = 1) ~> (pc = "idle" /\ result = "converged"))

\* run() has returned 'converged' at the head of the iteration that follows
\* converge_min_iterations good cycles, which came after a cycle with a
\* high error
C34_Witness ==
    /\ pc = "idle"
    /\ result = "converged"
    /\ runs = 1
    /\ num_iterations = converge_min_iterations + 1
    /\ tails.all = converge_min_iterations
    /\ ~callback

(***************************************************************************)
(* Claims about TelemLogger (checked under SpecLogger)                     *)
(***************************************************************************)
\* C35: once get_telem_channels() or the write to the database has raised
\* in a polling round, running is False, the worker thread has returned from
\* its function (the exception was caught there and went no further), and no
\* point has been written since, the sources later in the round included;
\* no point with an empty dict of channels is ever written.
C35_WorkerFailure ==
    /\ logger.failed # None =>
          /\ ~logger.running
          /\ logger.thread = "returned"
          /\ Len(logger.points) = logger.failed[1]
    /\ \A i \in 1..Len(logger.points) : logger.points[i].fields # {}

\* the first source raised in the second round, after points were written
\* in the first, and the second source of the round was not polled
C35_Witness ==
    /\ logger.failed # None
    /\ logger.rounds = 2
    /\ logger.source_i = 1
    /\ Len(logger.points) = 2

(***************************************************************************)
(* More claims about HybridErrorSource (checked under SpecHybrid)          *)
(***************************************************************************)
\* C36: when the optical source returns an error and divergence_angle is
\* exactly max_divergence, the state stays as it was: in blind the blind
\* error is returned, in optical the optical error.
C36_DivergenceAtLimit ==
    (OpticalSignal /\ hyb_call.divergence = max_divergence) =>
        /\ hyb.state = hyb_call.before.state
        /\ hyb_call.before.state = "blind" =>
              hyb_call.ret = ErrorFrom("blind", hyb_call.blind_error)
        /\ hyb_call.before.state = "optical" =>
              hyb_call.ret = ErrorFrom("optical", hyb_call.found[1])

\* a call in state blind, after a call in which the optical source had a
\* signal, with a divergence of exactly max_divergence and an optical error
\* that is not the blind one
C36_Witness ==
    /\ OpticalSignal
    /\ hyb_call.divergence = max_divergence
    /\ hyb_call.before.state = "blind"
    /\ hyb.state = "blind"
    /\ hyb_call.before.optical.consec_detect_frames > 0
    /\ hyb_call.found[1] # hyb_call.blind_error

\* C37: after every call of compute_error(), returned or raised, a state
\* optical goes with consec_no_detect_frames < max_optical_no_signal_frames;
\* NoSignal is raised at most max_optical_no_signal_frames - 1 times in a
\* row, and never by a call made in state blind.
C37_OpticalBelowLimit ==
    /\ max_optical_no_signal_frames >= 1
    /\ hyb.state = "optical" =>
          hyb.optical.consec_no_detect_frames < max_optical_no_signal_frames
    /\ (hyb_call.op = "compute_error" /\ hyb_call.ret.kind = "NoSignal") =>
          /\ hyb_call.before.state = "optical"
          /\ hyb_call.nosig_run <= max_optical_no_signal_frames - 1
          /\ hyb_call.nosig_run = hyb.optical.consec_no_detect_frames
    /\ (hyb_call.op = "compute_error" /\ hyb_call.before.state = "blind") =>
          hyb_call.ret.kind = "error"

\* the call after max_optical_no_signal_frames - 1 raises in a row: it has
\* no signal either, and returns the blind error in state blind
C37_Witness ==
    /\ hyb_call.op = "compute_error"
    /\ hyb_call.found = None
    /\ hyb_call.before.state = "optical"
    /\ hyb_call.before.optical.consec_no_detect_frames
          = max_optical_no_signal_frames - 1
    /\ hyb_call.before.optical.consec_no_detect_frames > 0
    /\ hyb_call.ret = ErrorFrom("blind", hyb_call.blind_error)
    /\ hyb.state = "blind"

(***************************************************************************)
(* More claims about PIDController (checked under SpecPID)                 *)
(***************************************************************************)
\* C38: every update() records the time of the call, also one whose period
\* was over max_update_period: the period of an update() is the time since
\* the update() before it, whatever became of that one, so the update()
\* that follows a late one within max_update_period integrates over the
\* time since the late one.
C38_CallTimeRecorded ==
    pid_call.op = "update" =>
        LET u == pid_call.last_update[1]
        IN  /\ u.time = now
            /\ pid.last_iteration_time = Some(u.time)
            /\ u.prev = None <=> pid_call.period = None
            /\ u.prev # None =>
                  /\ pid_call.period = Some(u.time - u.prev[1].time)
                  /\ (u.prev[1].late /\ u.time - u.prev[1].time <= max_update_period) =>
                        pid.integrator = pid_call.before.integrator
                           + pid.gains.integral * pid_call.arg * (u.time - u.prev[1].time)

\* an update() that follows a late one within max_update_period and adds to
\* the integrator
C38_Witness ==
    /\ pid_call.op = "update"
    /\ pid_call.last_update[1].prev # None
    /\ pid_call.last_update[1].prev[1].late
    /\ ~pid_call.last_update[1].late
    /\ pid.integrator # pid_call.before.integrator

(***************************************************************************)
(* More claims about the Tracker (checked under Spec)                      *)
(***************************************************************************)
\* the cycle in progress had no signal or its callback returned true
C39_Skipped ==
    \E i \in 1..Len(cyc.events) :
        \/ cyc.events[i].op = "no_signal"
        \/ cyc.events[i] = Event("callback", "true")

\* C39: a cycle without signal or whose callback returns true calls no
\* update(): it ends with the controllers as they were at its head, their
\* last_iteration_time included.  The period of the first update() of an
\* axis after such cycles is therefore measured from the last update()
\* before them, and when it is over max_update_period that update() leaves
\* the integrator as it was.
C39_SkippedCyclesAgeTheController ==
    /\ (pc \in {"finish", "top"} /\ C39_Skipped) =>
          /\ controllers = cyc.head.controllers
          /\ \A i \in 1..Len(cyc.events) : cyc.events[i].op # "update"
    /\ \A a \in AxisSet :
          LET c0 == cyc.head.controllers[a]
          IN  (cyc.updated[a] # None /\ c0.last_iteration_time # None
                 /\ now - c0.last_iteration_time[1] > max_update_period) =>
                 cyc.updated[a] = Some(c0.integrator)

\* with a clock that advances by max_update_period per cycle: the update
\* of a cycle that follows a skipped one, two periods after the update
\* before it, left the integrator as it was although the error of the axis
\* is not zero
C39_Witness ==
    /\ config.periods = {max_update_period}
    /\ pc = "slew"
    /\ cyc.head.controllers["a1"].last_iteration_time
          = Some(now - 2 * max_update_period)
    /\ error["a1"][1] # 0
    /\ config.gains.integral > 0
    /\ cyc.updated["a1"] = Some(cyc.head.controllers["a1"].integrator)

\* the convergence accounting of the cycle in progress is done
C40_Counted ==
    /\ pc \in {"update", "slew", "finish"}
    /\ \E i \in 1..Len(cyc.events) : cyc.events[i].op = "converge"

\* C40: in a processed cycle whose error is of low magnitude while
\* converge_error_state is set and the state of the error source is another,
\* the convergence counter is set to 0; after the accounting of any
\* processed cycle the counter is one more than at the head of the cycle if
\* the error was low and from the required state, and 0 otherwise, so that
\* at the head of the loop it counts the processed cycles in a row that
\* were low-error and in the required state.
C40_CounterResetInOtherState ==
    /\ C40_Counted =>
          /\ ( /\ error.magnitude[1] <= converge_max_error_mag
               /\ config.converge_error_state # None
               /\ errstate # config.converge_error_state[1] )
                 => low_error_iterations = 0
          /\ low_error_iterations
                = IF GoodCycle THEN cyc.head.low_error_iterations + 1 ELSE 0
    /\ pc = "top" => low_error_iterations = tails.processed

\* a low error from the other state, in a cycle that began with cycles
\* counted
C40_Witness ==
    /\ C40_Counted
    /\ error.magnitude[1] <= converge_max_error_mag
    /\ config.converge_error_state = Some("optical")
    /\ errstate = "blind"
    /\ cyc.head.low_error_iterations > 0
    /\ low_error_iterations = 0
====
